---- MODULE Spec2Model ----
(***************************************************************************)
(* Device state synchronisation engine of homebridge-sleepme.              *)
(*                                                                         *)
(* Part I   ReadThroughCache (readThroughCache.ts): single-flight fetch,   *)
(*          freshness window, error backoff.                               *)
(* Part II  SleepmePlatformAccessory (platformAccessory.ts): optimistic    *)
(*          mode commands, retryApiCall, handleStateMismatch, polling.     *)
(* Part III The interaction-based variant of the accessory: the choice of  *)
(*          the poll interval by the time since the last interaction.      *)
(* Part IV  retryApiCall on its own.                                       *)
(* Part V   The TargetTemperature characteristic and its sentinels.        *)
(* Part VI  The promise chains of the engine and how they settle.          *)
(* Part VII SleepmePlatform (platform.ts): the configuration and the       *)
(*          discovery of the devices.                                      *)
(* Part VIII The configured poll intervals and the timers armed with them. *)
(*                                                                         *)
(* JavaScript runs every callback to completion on one event loop, so each *)
(* handler (a call, a promise continuation, a timer callback) is one       *)
(* action.  The network and the clock are the environment.                 *)
(***************************************************************************)
EXTENDS Integers, Sequences, FiniteSets, TLC

VARIABLES
    \* ---- Part I: one ReadThroughCache and its environment ----
    value,              \* this.value: "none" (undefined) or the stored response
    request,            \* this.request: 0 (undefined) or the id of the promise held
    responseTimestamp,  \* this.responseTimestamp: NoTime (undefined) or ms
    responseExpireAt,   \* this.responseExpireAt: NoTime (undefined) or ms
    errorCount,         \* this.errorCount
    now,                \* new Date().valueOf(), ms
    promise,            \* promise[k]: outcome of the chain built by the k-th
                        \* client.getDeviceStatus call; Len(promise) is the
                        \* number of requests the device endpoint has received
    calls,              \* one record per get() call, see Get
    lastStatus,         \* HTTP status of the last response received, 0 if none
    ticks,              \* number of clock advances so far
    \* ---- Part II: one SleepmePlatformAccessory and its environment ----
    deviceStatus,           \* this.deviceStatus: NullStatus or a snapshot
    expectedThermalState,   \* this.expectedThermalState: "null" or a mode
    timeout,                \* this.timeout: delay of the pending poll timer,
                            \* 0 when no timer is pending
    orphans,                \* pending poll timers whose handle this.timeout
                            \* no longer holds
    published,              \* what publishUpdates last pushed to HomeKit
    initFetch,              \* the constructor's getDeviceStatus request
    polls,                  \* the poll chains in progress, oldest first
    lastPoll,               \* how the poll chain that ended last ended
    cmds,                   \* the mode commands issued, oldest first
    server,                 \* the device as the vendor API holds it
    serverChanges,          \* changes made at the server by others so far
    \* ---- Part III: one accessory of the interaction-based variant ----
    iaNow,                  \* new Date().valueOf(), ms since construction
    lastInteractionTime,    \* this.lastInteractionTime, ms since construction
    isStartup,              \* this.isStartup
    iaTimeout,              \* delay of the pending poll timer, 0 when none
    iaArmedAt,              \* when the pending poll timer was armed
    iaPoll,                 \* the poll chain: "idle" or "sent"
    iaCmd,                  \* the mode command: "none" or "write"
    iaCmds,                 \* mode commands issued so far
    lastFire,               \* when a poll timer last fired, NoTime if never
    iaTicks,                \* clock advances so far
    \* ---- Part IV: one call of retryApiCall ----
    maxRetries,             \* the parameter maxRetries
    currentAttempt,         \* the parameter currentAttempt of the running call
    invocations,            \* how often operation() has been invoked
    retryState,             \* "idle", "calling", "waiting", "resolved" or
                            \* "rejected"
    settledWith,            \* what the promise returned resolved or rejected
                            \* with, NoResult before
    raised,                 \* the errors operation() has rejected with
    delays,                 \* the delays waited before the retries
    \* ---- Part V: the TargetTemperature characteristic ----
    tempPhase,              \* "idle", or "sent" while a write is under way
    tempSets,               \* calls of onSet so far that found a snapshot
    tempIgnored,            \* calls of onSet so far that found none
    target,                 \* the value of the last onSet that found a
                            \* snapshot, tenths of a degree C
    setByDisplay,           \* whether that value was the one displayed
    apiTemp,                \* the value of the last write, degrees F
    snapshotTemp,           \* set_temperature_f and set_temperature_c (tenths)
                            \* of this.deviceStatus.control
    deviceTemp,             \* the same two fields as the device holds them
    displayed,              \* TargetTemperature as last published, tenths C
    \* ---- Part VI: one promise chain of the engine ----
    chainRoot,              \* the chain that runs, see RootChains
    chainStack,             \* the chain and the chains whose promises its
                            \* handlers returned, innermost last; at is the
                            \* link that comes next, 0 before the chain starts
    settlement,             \* of the promise that reaches the next link:
                            \* "pending", "fulfilled" or "rejected"
    waiting,                \* "request", "delay" or "none"
    hasSnapshot,            \* whether this.deviceStatus is set
    chAttempt,              \* currentAttempt of retryApiCall
    chRetryCount,           \* retryCount of handleStateMismatch
    ended,                  \* how the chain's last promise settled, "none"
                            \* before
    \* ---- Part VII: one SleepmePlatform ----
    config,                 \* this.config, see Configs
    platLog,                \* the messages given to this.log.error
    listening,              \* whether the constructor registered its
                            \* listener for didFinishLaunching
    launched,               \* whether Homebridge has emitted that event
    discovery,              \* the promise discoverDevices returned: "none",
                            \* "pending", "fulfilled" or "rejected"
    keyAnswer,              \* per key: the HTTP status listDevices was
                            \* answered with, 0 before
    keyPromise,             \* per key: the promise of its chain
    cached,                 \* this.accessories: the devices restored
    registered,             \* the devices given to
                            \* registerPlatformAccessories
    listed,                 \* per key: the device the API lists for it
    registerCalls,          \* the calls of registerPlatformAccessories in
                            \* order, each the device it was given
    \* ---- Part VIII: the poll intervals of both variants ----
    pollConfig,             \* the three interval settings of this.platform
                            \* .config, each unset or a number
    intervalsSec,           \* activePollingIntervalMs, standbyPollingIntervalMs
                            \* and slowPollingIntervalMs in seconds, 0
                            \* before the constructors have run
    armedWith,              \* the interval the last poll timer was armed
                            \* with: "none", "active", "standby", "slow" or
                            \* "fast"
    armedDelay              \* the delay that timer runs with, ms

cvars == <<value, request, responseTimestamp, responseExpireAt, errorCount,
           now, promise, calls, lastStatus, ticks>>

avars == <<deviceStatus, expectedThermalState, timeout, orphans, published,
           initFetch, polls, lastPoll, cmds, server, serverChanges>>

ivars == <<iaNow, lastInteractionTime, isStartup, iaTimeout, iaArmedAt,
           iaPoll, iaCmd, iaCmds, lastFire, iaTicks>>

rvars == <<maxRetries, currentAttempt, invocations, retryState, settledWith,
           raised, delays>>

tvars == <<tempPhase, tempSets, tempIgnored, target, setByDisplay, apiTemp,
           snapshotTemp, deviceTemp, displayed>>

pvars == <<chainRoot, chainStack, settlement, waiting, hasSnapshot, chAttempt,
           chRetryCount, ended>>

dvars == <<config, platLog, listening, launched, discovery, keyAnswer,
           keyPromise, cached, registered, listed, registerCalls>>

gvars == <<pollConfig, intervalsSec, armedWith, armedDelay>>

vars == <<cvars, avars, ivars, rvars, tvars, pvars, dvars, gvars>>

\* What the handlers of one part leave alone: the other parts.
otherThanCache == <<avars, ivars, rvars, tvars, pvars, dvars, gvars>>
otherThanAccessory == <<cvars, ivars, rvars, tvars, pvars, dvars, gvars>>
otherThanInteraction == <<cvars, avars, rvars, tvars, pvars, dvars, gvars>>
otherThanRetry == <<cvars, avars, ivars, tvars, pvars, dvars, gvars>>
otherThanTemperature == <<cvars, avars, ivars, rvars, pvars, dvars, gvars>>
otherThanChains == <<cvars, avars, ivars, rvars, tvars, dvars, gvars>>
otherThanPlatform == <<cvars, avars, ivars, rvars, tvars, pvars, gvars>>
otherThanIntervals == <<cvars, avars, ivars, rvars, tvars, pvars, dvars>>

----------------------------------------------------------------------------
(* Bounds of the model *)

\* Keys in api_keys.
MaxKeys == 2

MaxCalls == 4
MaxTicks == 4
MaxErrorCount == 7
MaxCmds == 1
MaxPolls == 2
MaxServerChanges == 1
MaxIaTicks == 4
MaxIaCmds == 2
MaxTempSets == 2

(* Program constants *)

expirationMS == 1000
MinBackoffMS == 60000
DEFAULT_ACTIVE_POLLING_INTERVAL_SECONDS == 45
DEFAULT_STANDBY_POLLING_INTERVAL_MINUTES == 15
INITIAL_RETRY_DELAY_MS == 15000
MAX_RETRIES == 3
STATE_MISMATCH_RETRY_DELAY_MS == 5000
MAX_STATE_MISMATCH_RETRIES == 3
FAST_POLLING_INTERVAL_MS == 15 * 1000
DEFAULT_SLOW_POLLING_INTERVAL_MINUTES == 15
POLLING_RECENCY_THRESHOLD_MS == 60 * 1000
HIGH_TEMP_THRESHOLD_F == 115
HIGH_TEMP_TARGET_F == 999
LOW_TEMP_THRESHOLD_F == 55
LOW_TEMP_TARGET_F == -1

NoTime == -1

\* Payloads the device endpoint can answer a status request with.
Data == {"d1", "d2"}

\* Failure responses: rate limit, server error, authentication rejection.
ErrorStatuses == {429, 500, 403}

\* Clock advances the environment can make between two handlers.
TickSteps == {500, 1000, 60000}

RECURSIVE Pow2(_)
Pow2(n) == IF n = 0 THEN 1 ELSE 2 * Pow2(n - 1)

Max(a, b) == IF a >= b THEN a ELSE b

----------------------------------------------------------------------------
(* Values of Part II *)

Modes == {"standby", "active"}

\* A snapshot (DeviceStatus) keeps the thermal mode and one more control
\* field (the set temperature, F) and one status field (the water level).
NullStatus == [mode |-> "null", temp |-> 0, wl |-> 0]

\* How the poll chain that ended last ended: res, "ok" or "failed" ("none"
\* before the first has ended); prev, the snapshot's mode before its
\* handler ran; held, whether the handler kept an expected mode against the
\* one the server reported.
NoPoll == [res |-> "none", prev |-> "null", held |-> FALSE]

\* The accessory before any of its requests has been answered, for the
\* specifications that run the cache alone.
AccQuiet ==
    /\ deviceStatus = NullStatus
    /\ expectedThermalState = "null"
    /\ timeout = 0
    /\ orphans = 0
    /\ published = NullStatus
    /\ initFetch = "done"
    /\ polls = << >>
    /\ lastPoll = NoPoll
    /\ cmds = << >>
    /\ server = [mode |-> "standby", temp |-> 72, wl |-> 100]
    /\ serverChanges = 0

\* The interaction-based accessory as its field initialisers leave it, for
\* the specifications that run another part.
IaQuiet ==
    /\ iaNow = 0
    /\ lastInteractionTime = 0 - 2 * 60 * 60 * 1000
    /\ isStartup = TRUE
    /\ iaTimeout = 0
    /\ iaArmedAt = 0
    /\ iaPoll = "idle"
    /\ iaCmd = "none"
    /\ iaCmds = 0
    /\ lastFire = NoTime
    /\ iaTicks = 0

\* What operation() settles with: the response (status 200) or the error
\* (its HTTP status) of its n-th invocation.
NoResult == [status |-> 0, n |-> 0]

\* retryApiCall before it is called.
RetryQuiet ==
    /\ maxRetries = MAX_RETRIES
    /\ currentAttempt = 1
    /\ invocations = 0
    /\ retryState = "idle"
    /\ settledWith = NoResult
    /\ raised = << >>
    /\ delays = << >>

\* The snapshot's set temperature as the fake device has it: 72 F, 22 C.
TempQuiet ==
    /\ tempPhase = "idle"
    /\ tempSets = 0
    /\ tempIgnored = 0
    /\ target = 0
    /\ setByDisplay = FALSE
    /\ apiTemp = 0
    /\ snapshotTemp = [f |-> 72, c |-> 220]
    /\ deviceTemp = [f |-> 72, c |-> 220]
    /\ displayed = 220

\* An accessory that has received its snapshot and does nothing else.
AccSnapshot ==
    /\ deviceStatus = [mode |-> "standby", temp |-> 72, wl |-> 100]
    /\ expectedThermalState = "null"
    /\ timeout = 0
    /\ orphans = 0
    /\ published = deviceStatus
    /\ initFetch = "done"
    /\ polls = << >>
    /\ lastPoll = NoPoll
    /\ cmds = << >>
    /\ server = [mode |-> "standby", temp |-> 72, wl |-> 100]
    /\ serverChanges = 0

\* No promise chain is followed.
ChainQuiet ==
    /\ chainRoot = "none"
    /\ chainStack = << >>
    /\ settlement = "pending"
    /\ waiting = "none"
    /\ hasSnapshot = FALSE
    /\ chAttempt = 1
    /\ chRetryCount = 0
    /\ ended = "none"

\* The platform of the development configuration, one key, before
\* Homebridge has finished launching.
PlatformQuiet ==
    /\ config = [api_keys |-> [kind |-> "array",
                              items |-> <<[isString |-> TRUE,
                                           chars |-> <<"a", "b", "c">>]>>],
                 sleepme_api_url |-> "url"]
    /\ platLog = {}
    /\ listening = TRUE
    /\ launched = FALSE
    /\ discovery = "none"
    /\ keyAnswer = <<0>>
    /\ keyPromise = <<"none">>
    /\ cached = {}
    /\ registered = {}
    /\ listed = <<1>>
    /\ registerCalls = << >>

\* Nothing is configured and no constructor has run.
IntervalQuiet ==
    /\ pollConfig = [active |-> [set |-> FALSE, v |-> 0],
                     standby |-> [set |-> FALSE, v |-> 0],
                     slow |-> [set |-> FALSE, v |-> 0]]
    /\ intervalsSec = [active |-> 0, standby |-> 0, slow |-> 0]
    /\ armedWith = "none"
    /\ armedDelay = 0

\* The parts that a specification does not run.
NoChainPlatform == ChainQuiet /\ PlatformQuiet /\ IntervalQuiet

\* The parts that a specification does not run.
NoInteractionRetryTemp == IaQuiet /\ RetryQuiet /\ TempQuiet

----------------------------------------------------------------------------
(* Part I: ReadThroughCache *)

CacheInit ==
    /\ value = "none"
    /\ request = 0
    /\ responseTimestamp = NoTime
    /\ responseExpireAt = NoTime
    /\ errorCount = 0
    /\ now = 0
    /\ promise = << >>
    /\ calls = << >>
    /\ lastStatus = 0
    /\ ticks = 0

\* Variant of IsFresh with the comparison turned round.
IsFreshInverted ==
    /\ value # "none"
    /\ responseExpireAt # NoTime
    /\ now > responseExpireAt

\* get(), first test: a value is stored and now < responseExpireAt.
IsFresh ==
    /\ value # "none"
    /\ responseExpireAt # NoTime
    /\ now < responseExpireAt

\* Variants of NoRequest: no test of the request in flight; a stored value
\* that is no longer fresh passes the test.
NoRequestAlways == TRUE
NoRequestOrStale == request = 0 \/ value # "none"

\* get(), second test: `if (!this.request)`.
NoRequest == request = 0

\* Variant of backoffDuration that does not grow with the error count.
backoffFlat(n) == Max(expirationMS, MinBackoffMS)

\* Math.max(Math.pow(2, this.errorCount) * this.expirationMS, 60 * 1000)
backoffDuration(n) == Max(Pow2(n) * expirationMS, MinBackoffMS)

\* Number of settled promises: the responses received so far.
Completed == Cardinality({k \in 1..Len(promise) : promise[k] # "pending"})

\* What the promise returned by the i-th get() call has resolved with:
\* "pending", "null", "rejected" or a payload.
Result(i) == IF calls[i].p = 0 THEN calls[i].v ELSE promise[calls[i].p]

\* One get() call.  The record kept for it: p, the promise returned (0 for
\* Promise.resolve(this.value)); v, the value of an immediate resolution;
\* epoch, the number of responses received before the call; had, whether a
\* value was stored at the call.
Get ==
    /\ Len(calls) < MaxCalls
    /\ LET rec(p, v) == [p |-> p, v |-> v, epoch |-> Completed,
                         had |-> (value # "none")]
       IN  IF IsFresh
           THEN /\ calls' = Append(calls, rec(0, value))
                /\ UNCHANGED <<promise, request>>
           ELSE IF NoRequest
           THEN /\ promise' = Append(promise, "pending")
                /\ request' = Len(promise) + 1
                /\ calls' = Append(calls, rec(Len(promise) + 1, "none"))
           ELSE /\ calls' = Append(calls, rec(request, "none"))
                /\ UNCHANGED <<promise, request>>
    /\ UNCHANGED <<value, responseTimestamp, responseExpireAt, errorCount,
                   now, lastStatus, ticks>>
    /\ UNCHANGED otherThanCache

\* What the .then handler leaves in this.request.
RequestAfterSuccess == 0

\* The .then handler of fetch k runs: the endpoint answered 200 with d.
FetchSuccess(k, d) ==
    /\ promise[k] = "pending"
    /\ value' = d
    /\ responseTimestamp' = now
    /\ responseExpireAt' = now + expirationMS
    /\ request' = RequestAfterSuccess
    /\ errorCount' = 0
    /\ promise' = [promise EXCEPT ![k] = d]
    /\ lastStatus' = 200
    /\ UNCHANGED <<now, calls, ticks>>
    /\ UNCHANGED otherThanCache

\* Variants of CatchResult: the error is passed on; the stored value is not
\* served.
CatchRethrow == "rejected"
CatchNull == "null"

\* What the .catch handler resolves the chain with.
CatchResult == IF value # "none" THEN value ELSE "null"

\* Variant of FetchFailure that computes the backoff from the error count
\* before this failure.
FetchFailureOldCount(k, status) ==
    /\ promise[k] = "pending"
    /\ errorCount' = errorCount + 1
    /\ responseExpireAt' = IF value # "none"
                           THEN now + backoffDuration(errorCount)
                           ELSE responseExpireAt
    /\ promise' = [promise EXCEPT ![k] = CatchResult]
    /\ lastStatus' = status
    /\ UNCHANGED <<value, request, responseTimestamp, now, calls, ticks>>
    /\ UNCHANGED otherThanCache

\* The .catch handler of fetch k runs: the endpoint answered with an error
\* status.  this.request is left as it is.
FetchFailure(k, status) ==
    /\ promise[k] = "pending"
    /\ errorCount' = errorCount + 1
    /\ responseExpireAt' = IF value # "none"
                           THEN now + backoffDuration(errorCount + 1)
                           ELSE responseExpireAt
    /\ promise' = [promise EXCEPT ![k] = CatchResult]
    /\ lastStatus' = status
    /\ UNCHANGED <<value, request, responseTimestamp, now, calls, ticks>>
    /\ UNCHANGED otherThanCache

Tick(d) ==
    /\ ticks < MaxTicks
    /\ now' = now + d
    /\ ticks' = ticks + 1
    /\ UNCHANGED <<value, request, responseTimestamp, responseExpireAt,
                   errorCount, promise, calls, lastStatus>>
    /\ UNCHANGED otherThanCache

CacheNext ==
    \/ Get
    \/ \E k \in 1..Len(promise), d \in Data : FetchSuccess(k, d)
    \/ \E k \in 1..Len(promise), s \in ErrorStatuses : FetchFailure(k, s)
    \/ \E d \in TickSteps : Tick(d)

Init == CacheInit /\ AccQuiet /\ NoInteractionRetryTemp /\ NoChainPlatform

Spec == Init /\ [][CacheNext]_vars

----------------------------------------------------------------------------
(* The failure handler on its own: the cache holds a value, a fetch is in  *)
(* flight, and the handler runs for every error count up to MaxErrorCount. *)

StartTimes == {120000, 250000, 300000}

BackoffInit ==
    /\ value \in Data
    /\ request = 1
    /\ responseTimestamp = 0
    /\ now \in StartTimes
    /\ responseExpireAt \in {now - 500, now}
    /\ errorCount \in 0..MaxErrorCount
    /\ promise = <<"pending">>
    /\ calls = <<[p |-> 1, v |-> "none", epoch |-> 1, had |-> TRUE]>>
    /\ lastStatus = IF errorCount = 0 THEN 200 ELSE 500
    /\ ticks = 0

BackoffNext == \E s \in ErrorStatuses : FetchFailure(1, s)

BackoffSpecInit ==
    BackoffInit /\ AccQuiet /\ NoInteractionRetryTemp /\ NoChainPlatform

BackoffSpec == BackoffSpecInit /\ [][BackoffNext]_vars

\* The same with the get() calls made and the time that passes before and
\* after the failure.
BackoffWindowNext ==
    \/ \E s \in ErrorStatuses : FetchFailure(1, s)
    \/ Get
    \/ \E d \in TickSteps : Tick(d)

BackoffWindowSpec == BackoffSpecInit /\ [][BackoffWindowNext]_vars

----------------------------------------------------------------------------
(* Part II: SleepmePlatformAccessory, with the default configuration *)

activePollingIntervalMs == DEFAULT_ACTIVE_POLLING_INTERVAL_SECONDS * 1000
standbyPollingIntervalMs == DEFAULT_STANDBY_POLLING_INTERVAL_MINUTES * 60 * 1000

\* What the vendor API can hold for the device.
ServerStates ==
    {[mode |-> m, temp |-> p.temp, wl |-> p.wl] :
        m \in Modes, p \in {[temp |-> 72, wl |-> 100], [temp |-> 75, wl |-> 50]}}

\* What it holds when the accessory is constructed.
InitialServerStates == {st \in ServerStates : st.wl = 100}

\* The Control object of a snapshot, as a PATCH answers it.
ControlOf(st) == [mode |-> st.mode, temp |-> st.temp, wl |-> 0]

\* The fields of the accessory that its handlers read and write.
Acc == [ds |-> deviceStatus, exp |-> expectedThermalState,
        tmo |-> timeout, orph |-> orphans, pub |-> published]

Commit(a) ==
    /\ deviceStatus' = a.ds
    /\ expectedThermalState' = a.exp
    /\ timeout' = a.tmo
    /\ orphans' = a.orph
    /\ published' = a.pub

\* Variant of getPollingIntervalBasedOnState that takes a missing snapshot
\* for a device in standby.
getPollingIntervalStandbyFirst(ds) ==
    IF ds.mode = "active" THEN activePollingIntervalMs
    ELSE standbyPollingIntervalMs

getPollingIntervalBasedOnState(ds) ==
    IF ds.mode = "null" THEN activePollingIntervalMs
    ELSE IF ds.mode = "active" THEN activePollingIntervalMs
    ELSE standbyPollingIntervalMs

\* clearTimeout(this.timeout): the timer the handle holds, if it is still
\* pending, is cancelled.
clearTimeout(a) == [a EXCEPT !.tmo = 0]

\* this.timeout = setTimeout(..., delay): a timer pending under the old
\* handle stays pending without a handle.
setTimeout(a, delay) ==
    [a EXCEPT !.tmo = delay,
              !.orph = IF a.tmo # 0 THEN a.orph + 1 ELSE a.orph]

\* Variant of scheduleNextCheck without the clearTimeout.
scheduleNextCheckNoClear(a) ==
    setTimeout(a, getPollingIntervalBasedOnState(a.ds))

\* clearTimeout(this.timeout); this.timeout = setTimeout(..., pollingInterval)
scheduleNextCheck(a) ==
    setTimeout(clearTimeout(a), getPollingIntervalBasedOnState(a.ds))

scheduleNextPollBasedOnState(a) == scheduleNextCheck(clearTimeout(a))

publishUpdates(a) ==
    IF a.ds.mode = "null" THEN a ELSE [a EXCEPT !.pub = a.ds]

\* Variant of updateControlFromResponse that leaves the pending timer alone.
updateControlNoReschedule(a, ctl) ==
    IF a.ds.mode = "null" THEN a
    ELSE IF a.exp # "null" /\ ctl.mode # a.exp THEN a
    ELSE publishUpdates([a EXCEPT !.exp = "null",
                                  !.ds = [mode |-> ctl.mode, temp |-> ctl.temp,
                                          wl |-> a.ds.wl]])

\* Variant of updateControlFromResponse that takes the thermal mode only.
updateControlModeOnly(a, ctl) ==
    IF a.ds.mode = "null" THEN a
    ELSE IF a.exp # "null" /\ ctl.mode # a.exp THEN a
    ELSE LET b == [a EXCEPT !.exp = "null", !.ds.mode = ctl.mode]
             c == IF a.ds.mode # ctl.mode
                  THEN scheduleNextPollBasedOnState(b) ELSE b
         IN  publishUpdates(c)

updateControlFromResponse(a, ctl) ==
    IF a.ds.mode = "null" THEN a
    ELSE IF a.exp # "null" /\ ctl.mode # a.exp THEN a
    ELSE LET b == [a EXCEPT !.exp = "null",
                            !.ds = [mode |-> ctl.mode, temp |-> ctl.temp,
                                    wl |-> a.ds.wl]]
             c == IF a.ds.mode # ctl.mode
                  THEN scheduleNextPollBasedOnState(b) ELSE b
         IN  publishUpdates(c)

AccInit ==
    /\ deviceStatus = NullStatus
    /\ expectedThermalState = "null"
    /\ timeout = getPollingIntervalBasedOnState(NullStatus)
    /\ orphans = 0
    /\ published = NullStatus
    /\ initFetch = "sent"
    /\ polls = << >>
    /\ lastPoll = NoPoll
    /\ cmds = << >>
    /\ server \in InitialServerStates
    /\ serverChanges = 0

\* ---- the environment ----

\* A status request (GET) is answered and its answer handled in one step,
\* with the state the server holds then, or with an error.  A write (PATCH)
\* is applied and answered by the server in one step and its answer handled
\* in a later one: what polls see in between is the point of the commands.

\* The device's status changes (the water level, and with it the set
\* temperature), and it may be switched by other means than this accessory.
ServerChange ==
    /\ serverChanges < MaxServerChanges
    /\ \E st \in ServerStates : st.wl # server.wl /\ server' = st
    /\ serverChanges' = serverChanges + 1
    /\ UNCHANGED <<deviceStatus, expectedThermalState, timeout, orphans,
                   published, initFetch, polls, lastPoll, cmds>>
    /\ UNCHANGED otherThanAccessory

\* PATCH thermal_control_status: the server applies the target and answers
\* with its control state ("honour"), answers with its control state without
\* applying the target ("ignore"), or answers with an error.
WriteOutcomes == {"honour", "ignore", "error"}

CmdAnswerWrite(i, outcome) ==
    /\ cmds[i].pc \in {"write", "mmwrite"}
    /\ LET after == IF outcome = "honour"
                    THEN [server EXCEPT !.mode = cmds[i].target] ELSE server
       IN  /\ server' = after
           /\ cmds' = [cmds EXCEPT
                  ![i].pc = IF cmds[i].pc = "write"
                            THEN "write_ans" ELSE "mmwrite_ans",
                  ![i].ok = (outcome # "error"),
                  ![i].data = IF outcome = "error"
                              THEN NullStatus ELSE ControlOf(after)]
    /\ UNCHANGED <<deviceStatus, expectedThermalState, timeout, orphans,
                   published, initFetch, polls, lastPoll, serverChanges>>
    /\ UNCHANGED otherThanAccessory

\* ---- the constructor's status request ----

\* The .then or the .catch handler of the constructor's request.
InitHandle(ok) ==
    /\ initFetch = "sent"
    /\ initFetch' = "done"
    /\ Commit(IF ok
              THEN publishUpdates([Acc EXCEPT !.ds = server])
              ELSE Acc)
    /\ UNCHANGED <<polls, lastPoll, cmds, server, serverChanges>>
    /\ UNCHANGED otherThanAccessory

\* ---- polling ----

\* The poll timer fires: retryApiCall(poller) sends the first request.
\* The timer is the one this.timeout holds or one without a handle.
TimerFires ==
    /\ Len(polls) < MaxPolls
    /\ \E held \in {h \in BOOLEAN : IF h THEN timeout # 0 ELSE orphans > 0} :
           /\ timeout' = IF held THEN 0 ELSE timeout
           /\ orphans' = IF held THEN orphans ELSE orphans - 1
    /\ polls' = Append(polls, [pc |-> "sent", att |-> 1])
    /\ UNCHANGED <<deviceStatus, expectedThermalState, published, initFetch,
                   lastPoll, cmds, server, serverChanges>>
    /\ UNCHANGED otherThanAccessory

\* The sequence without its i-th element.
Remove(seq, i) == [j \in 1..(Len(seq) - 1) |-> IF j < i THEN seq[j] ELSE seq[j + 1]]

\* retryApiCall: another attempt follows a failed attempt number att.
RetryAllowed(att) == att <= MAX_RETRIES

\* Variant of PollSuccess that takes every field from the poll.
PollSuccessTakeAll(a, s) ==
    LET b == [a EXCEPT !.ds = s]
    IN  IF a.ds.mode # s.mode
        THEN scheduleNextPollBasedOnState(publishUpdates(b))
        ELSE scheduleNextCheck(publishUpdates(b))

\* Variant of PollSuccess that leaves a matching expected state set.
PollSuccessKeepExpected(a, s) ==
    LET previousState == a.ds.mode
        held == a.exp # "null" /\ s.mode # a.exp
        b == [a EXCEPT !.ds = IF held THEN [s EXCEPT !.mode = a.exp] ELSE s]
    IN  IF previousState # b.ds.mode
        THEN scheduleNextPollBasedOnState(publishUpdates(b))
        ELSE scheduleNextCheck(publishUpdates(b))

\* The .then handler of a poll, for the status s it received.
PollSuccess(a, s) ==
    LET previousState == a.ds.mode
        held == a.exp # "null" /\ s.mode # a.exp
        b == [a EXCEPT !.ds = IF held THEN [s EXCEPT !.mode = a.exp] ELSE s,
                       !.exp = IF a.exp # "null" /\ s.mode = a.exp
                               THEN "null" ELSE a.exp]
    IN  IF previousState # b.ds.mode
        THEN scheduleNextPollBasedOnState(publishUpdates(b))
        ELSE scheduleNextCheck(publishUpdates(b))

\* Variant of PollFailure that gives up polling.
PollFailureNoSchedule(a) == a

\* The .catch handler of a poll: the error of the last attempt.
PollFailure(a) == scheduleNextCheck(a)

\* The answer to a poll request is handled: success, a failure that is
\* retried after a delay, or the last failure.
PollHandle(i, ok) ==
    /\ polls[i].pc = "sent"
    /\ IF ok
       THEN /\ Commit(PollSuccess(Acc, server))
            /\ polls' = Remove(polls, i)
            /\ lastPoll' = [res |-> "ok", prev |-> deviceStatus.mode,
                            held |-> /\ expectedThermalState # "null"
                                     /\ server.mode # expectedThermalState]
       ELSE IF RetryAllowed(polls[i].att)
       THEN /\ polls' = [polls EXCEPT ![i].pc = "wait"]
            /\ Commit(Acc)
            /\ lastPoll' = lastPoll
       ELSE /\ Commit(PollFailure(Acc))
            /\ polls' = Remove(polls, i)
            /\ lastPoll' = [res |-> "failed", prev |-> deviceStatus.mode,
                            held |-> FALSE]
    /\ UNCHANGED <<initFetch, cmds, server, serverChanges>>
    /\ UNCHANGED otherThanAccessory

\* The retry delay of a poll has passed: the next attempt is sent.
PollRetry(i) ==
    /\ polls[i].pc = "wait"
    /\ polls' = [polls EXCEPT ![i].pc = "sent", ![i].att = polls[i].att + 1]
    /\ UNCHANGED <<deviceStatus, expectedThermalState, timeout, orphans,
                   published, initFetch, lastPoll, cmds, server,
                   serverChanges>>
    /\ UNCHANGED otherThanAccessory

\* ---- mode commands ----

\* A command record: target; pc, where its promise chain stands; att, the
\* attempt of retryApiCall; rc, retryCount of handleStateMismatch; ok and
\* data, the answer waiting to be handled; delay, the delay of the setTimeout
\* the chain waits for, 0 when it waits for none; out, how the chain ended.
NewCmd(t) == [target |-> t, pc |-> "write", att |-> 1, rc |-> 0,
              ok |-> FALSE, data |-> NullStatus, delay |-> 0, out |-> "none"]

Done(c, out) == [target |-> c.target, pc |-> "done", att |-> 0, rc |-> 0,
                 ok |-> FALSE, data |-> NullStatus, delay |-> 0, out |-> out]

Goto(c, pc) ==
    [c EXCEPT !.pc = pc, !.ok = FALSE, !.data = NullStatus, !.delay = 0]

\* Variant of OptimisticUpdate that leaves the snapshot to the response.
OptimisticDeferred(a, t) == [a EXCEPT !.exp = t]

\* onSet, the synchronous part: the expected state and the optimistic update.
OptimisticUpdate(a, t) ==
    LET b == [a EXCEPT !.exp = t]
    IN  IF b.ds.mode = "null" THEN b
        ELSE scheduleNextPollBasedOnState(
                 publishUpdates([b EXCEPT !.ds.mode = t]))

ModeSet(t) ==
    /\ Len(cmds) < MaxCmds
    /\ Commit(OptimisticUpdate(Acc, t))
    /\ cmds' = Append(cmds, NewCmd(t))
    /\ UNCHANGED <<initFetch, polls, lastPoll, server, serverChanges>>
    /\ UNCHANGED otherThanAccessory

\* Variant of handleStateMismatch that gives up one attempt later.
handleStateMismatchOneMore(a, c, actual, retryCount) ==
    IF retryCount > MAX_STATE_MISMATCH_RETRIES
    THEN LET b == [a EXCEPT !.exp = "null"]
         IN  IF a.ds.mode = "null"
             THEN [a |-> b, c |-> Goto(c, "refetch")]
             ELSE [a |-> updateControlFromResponse(
                             b, [mode |-> actual, temp |-> a.ds.temp, wl |-> 0]),
                   c |-> Done(c, "accepted")]
    ELSE [a |-> a,
          c |-> [Goto(c, "mmwait") EXCEPT
                    !.rc = retryCount,
                    !.delay = STATE_MISMATCH_RETRY_DELAY_MS]]

\* handleStateMismatch(expectedState, actualState, retryCount) followed by
\* the chain's second .then handler when it gives up.  The result is the
\* accessory and the command afterwards.
handleStateMismatch(a, c, actual, retryCount) ==
    IF retryCount >= MAX_STATE_MISMATCH_RETRIES
    THEN LET b == [a EXCEPT !.exp = "null"]
         IN  IF a.ds.mode = "null"
             THEN [a |-> b, c |-> Goto(c, "refetch")]
             ELSE [a |-> updateControlFromResponse(
                             b, [mode |-> actual, temp |-> a.ds.temp, wl |-> 0]),
                   c |-> Done(c, "accepted")]
    ELSE [a |-> a,
          c |-> [Goto(c, "mmwait") EXCEPT
                    !.rc = retryCount,
                    !.delay = STATE_MISMATCH_RETRY_DELAY_MS]]

\* What the rollback handler leaves in this.expectedThermalState when the
\* refetch has succeeded.
ExpectedAfterRollback(a) == "null"

\* Variant of ReissueFailed that waits and re-issues the write once more.
ReissueFailedTryAgain(a, c) ==
    [a |-> a,
     c |-> [Goto(c, "mmwait") EXCEPT !.delay = STATE_MISMATCH_RETRY_DELAY_MS]]

\* The write re-issued by handleStateMismatch is rejected: the rejection
\* passes the chain's .then handlers and reaches its .catch handler, which
\* requests the status.
ReissueFailed(a, c) == [a |-> a, c |-> Goto(c, "refetch")]

\* The answer that waits in command c is handled.
CmdStep(a, c) ==
    CASE c.pc = "write_ans" ->
           IF ~c.ok
           THEN IF RetryAllowed(c.att)
                THEN [a |-> a,
                      c |-> [Goto(c, "wait") EXCEPT
                                !.delay = INITIAL_RETRY_DELAY_MS
                                          * Pow2(c.att - 1)]]
                ELSE [a |-> a, c |-> Goto(c, "refetch")]
           ELSE IF c.data.mode # c.target /\ a.exp = c.target
           THEN handleStateMismatch(a, c, c.data.mode, 0)
           ELSE [a |-> updateControlFromResponse([a EXCEPT !.exp = "null"], c.data),
                 c |-> Done(c, "confirmed")]
      [] c.pc = "mmwrite_ans" ->
           IF ~c.ok
           THEN ReissueFailed(a, c)
           ELSE IF c.data.mode = c.target
           THEN [a |-> updateControlFromResponse([a EXCEPT !.exp = "null"], c.data),
                 c |-> Done(c, "confirmed")]
           ELSE handleStateMismatch(a, c, c.data.mode, c.rc + 1)

\* Variant of Rollback that keeps the optimistic mode of the snapshot.
RollbackKeepOptimistic(a, c, ok, st) ==
    IF ok
    THEN [a |-> scheduleNextPollBasedOnState(publishUpdates(
                    [a EXCEPT !.ds = [st EXCEPT !.mode = a.ds.mode],
                              !.exp = ExpectedAfterRollback(a)])),
          c |-> Done(c, "rolledback")]
    ELSE [a |-> a, c |-> Done(c, "refetchfailed")]

\* The rollback: the answer to the status request sent by the chain's .catch
\* handler, a status st or an error.
Rollback(a, c, ok, st) ==
    IF ok
    THEN [a |-> scheduleNextPollBasedOnState(publishUpdates(
                    [a EXCEPT !.ds = st, !.exp = ExpectedAfterRollback(a)])),
          c |-> Done(c, "rolledback")]
    ELSE [a |-> a, c |-> Done(c, "refetchfailed")]

CmdRefetchHandle(i, ok) ==
    /\ cmds[i].pc = "refetch"
    /\ LET r == Rollback(Acc, cmds[i], ok, server)
       IN  /\ Commit(r.a)
           /\ cmds' = [cmds EXCEPT ![i] = r.c]
    /\ UNCHANGED <<initFetch, polls, lastPoll, server, serverChanges>>
    /\ UNCHANGED otherThanAccessory

CmdHandle(i) ==
    /\ cmds[i].pc \in {"write_ans", "mmwrite_ans"}
    /\ LET r == CmdStep(Acc, cmds[i])
       IN  /\ Commit(r.a)
           /\ cmds' = [cmds EXCEPT ![i] = r.c]
    /\ UNCHANGED <<initFetch, polls, lastPoll, server, serverChanges>>
    /\ UNCHANGED otherThanAccessory

\* The retry delay of retryApiCall has passed: the write is sent again.
CmdRetry(i) ==
    /\ cmds[i].pc = "wait"
    /\ cmds' = [cmds EXCEPT ![i].pc = "write", ![i].att = cmds[i].att + 1,
                            ![i].delay = 0]
    /\ UNCHANGED <<deviceStatus, expectedThermalState, timeout, orphans,
                   published, initFetch, polls, lastPoll, server,
                   serverChanges>>
    /\ UNCHANGED otherThanAccessory

\* The 5 s delay of handleStateMismatch has passed: the write is re-issued.
CmdMismatchRetry(i) ==
    /\ cmds[i].pc = "mmwait"
    /\ cmds' = [cmds EXCEPT ![i].pc = "mmwrite", ![i].delay = 0]
    /\ UNCHANGED <<deviceStatus, expectedThermalState, timeout, orphans,
                   published, initFetch, polls, lastPoll, server,
                   serverChanges>>
    /\ UNCHANGED otherThanAccessory

AccNext ==
    \/ ServerChange
    \/ \E ok \in BOOLEAN : InitHandle(ok)
    \/ TimerFires
    \/ \E i \in 1..Len(polls), ok \in BOOLEAN : PollHandle(i, ok)
    \/ \E i \in 1..Len(polls) : PollRetry(i)
    \/ \E t \in Modes : ModeSet(t)
    \/ \E i \in 1..Len(cmds), o \in WriteOutcomes : CmdAnswerWrite(i, o)
    \/ \E i \in 1..Len(cmds) : CmdHandle(i)
    \/ \E i \in 1..Len(cmds), ok \in BOOLEAN : CmdRefetchHandle(i, ok)
    \/ \E i \in 1..Len(cmds) : CmdRetry(i)
    \/ \E i \in 1..Len(cmds) : CmdMismatchRetry(i)

AccSpecInit == CacheInit /\ AccInit /\ NoInteractionRetryTemp /\ NoChainPlatform

AccSpec == AccSpecInit /\ [][AccNext]_vars

\* ---- two commands, the second issued while the first is under way ----

\* onSet is called again before the first command's chain has ended.
ModeSetAgain(t) ==
    /\ Len(cmds) = 1
    /\ cmds[1].pc # "done"
    /\ Commit(OptimisticUpdate(Acc, t))
    /\ cmds' = Append(cmds, NewCmd(t))
    /\ UNCHANGED <<initFetch, polls, lastPoll, server, serverChanges>>
    /\ UNCHANGED otherThanAccessory

\* The accessory without its polls and without changes by others.
PairNext ==
    \/ \E ok \in BOOLEAN : InitHandle(ok)
    \/ \E t \in Modes : ModeSet(t)
    \/ \E t \in Modes : ModeSetAgain(t)
    \/ \E i \in 1..Len(cmds), o \in WriteOutcomes : CmdAnswerWrite(i, o)
    \/ \E i \in 1..Len(cmds) : CmdHandle(i)
    \/ \E i \in 1..Len(cmds), ok \in BOOLEAN : CmdRefetchHandle(i, ok)
    \/ \E i \in 1..Len(cmds) : CmdRetry(i)
    \/ \E i \in 1..Len(cmds) : CmdMismatchRetry(i)

PairSpecInit == CacheInit /\ AccInit /\ NoInteractionRetryTemp /\ NoChainPlatform

PairSpec == PairSpecInit /\ [][PairNext]_vars

\* The event loop runs every timer and every handler that is due; the server
\* answers every request, and of the status requests of the polls it
\* answers some without an error again and again.
AccFairness ==
    /\ WF_vars(\E ok \in BOOLEAN : InitHandle(ok))
    /\ WF_vars(TimerFires)
    /\ WF_vars(\E i \in 1..Len(polls), ok \in BOOLEAN : PollHandle(i, ok))
    /\ SF_vars(\E i \in 1..Len(polls) : PollHandle(i, TRUE))
    /\ WF_vars(\E i \in 1..Len(polls) : PollRetry(i))
    /\ WF_vars(\E i \in 1..Len(cmds), o \in WriteOutcomes : CmdAnswerWrite(i, o))
    /\ WF_vars(\E i \in 1..Len(cmds) : CmdHandle(i))
    /\ WF_vars(\E i \in 1..Len(cmds), ok \in BOOLEAN : CmdRefetchHandle(i, ok))
    /\ WF_vars(\E i \in 1..Len(cmds) : CmdRetry(i))
    /\ WF_vars(\E i \in 1..Len(cmds) : CmdMismatchRetry(i))

AccLiveSpec == AccSpecInit /\ [][AccNext]_vars /\ AccFairness

\* The accessory while every write is applied and answered at once by the
\* server: polling, the constructor's request and confirmed commands.
PollNext ==
    \/ ServerChange
    \/ \E ok \in BOOLEAN : InitHandle(ok)
    \/ TimerFires
    \/ \E i \in 1..Len(polls), ok \in BOOLEAN : PollHandle(i, ok)
    \/ \E i \in 1..Len(polls) : PollRetry(i)
    \/ \E t \in Modes : ModeSet(t)
    \/ \E i \in 1..Len(cmds) : CmdAnswerWrite(i, "honour")
    \/ \E i \in 1..Len(cmds) : CmdHandle(i)

\* Timers that are due fire, requests are answered, handlers run.
PollFairness ==
    /\ WF_vars(TimerFires)
    /\ WF_vars(\E i \in 1..Len(polls), ok \in BOOLEAN : PollHandle(i, ok))
    /\ WF_vars(\E i \in 1..Len(polls) : PollRetry(i))

PollLiveSpec == AccSpecInit /\ [][PollNext]_vars /\ PollFairness

----------------------------------------------------------------------------
(* Part III: SleepmePlatformAccessory, the interaction-based variant, with  *)
(* the default configuration.  The clock is modelled: a pending timer fires *)
(* when its delay has passed.  The first action is the call of              *)
(* scheduleNextCheck that ends the constructor.                             *)

slowPollingIntervalMs == DEFAULT_SLOW_POLLING_INTERVAL_MINUTES * 60 * 1000

\* Clock advances the environment can make between two handlers.
IaTickSteps == {5000, 60000}

\* Variant of usesFastPolling without the recency test.
usesFastPollingAlways(startup, since) == ~startup

\* scheduleNextCheck: usesFastPolling, for useSlowPollingOnStartup and
\* timeSinceLastInteractionMS.
usesFastPolling(startup, since) ==
    ~startup /\ since < POLLING_RECENCY_THRESHOLD_MS

pollingInterval(startup, since) ==
    IF usesFastPolling(startup, since)
    THEN FAST_POLLING_INTERVAL_MS ELSE slowPollingIntervalMs

\* scheduleNextCheck: the startup flag is cleared, the timer held is
\* cancelled and a timer is armed.
iaScheduleNextCheck ==
    /\ isStartup' = FALSE
    /\ iaTimeout' = pollingInterval(isStartup, iaNow - lastInteractionTime)
    /\ iaArmedAt' = iaNow

IaInit == IaQuiet

\* The constructor's call of scheduleNextCheck.
IaConstruct ==
    /\ isStartup
    /\ iaScheduleNextCheck
    /\ UNCHANGED <<iaNow, lastInteractionTime, iaPoll, iaCmd, iaCmds, lastFire,
                   iaTicks>>
    /\ UNCHANGED otherThanInteraction

\* Time passes, not beyond the moment the pending timer is due.
IaTick(d) ==
    /\ ~isStartup
    /\ iaTicks < MaxIaTicks
    /\ iaTimeout # 0 => iaNow + d < iaArmedAt + iaTimeout
    /\ iaNow' = iaNow + d
    /\ iaTicks' = iaTicks + 1
    /\ UNCHANGED <<lastInteractionTime, isStartup, iaTimeout, iaArmedAt,
                   iaPoll, iaCmd, iaCmds, lastFire>>
    /\ UNCHANGED otherThanInteraction

\* Time passes until the pending timer is due.
IaTickToTimer ==
    /\ iaTicks < MaxIaTicks
    /\ iaTimeout # 0
    /\ iaNow < iaArmedAt + iaTimeout
    /\ iaNow' = iaArmedAt + iaTimeout
    /\ iaTicks' = iaTicks + 1
    /\ UNCHANGED <<lastInteractionTime, isStartup, iaTimeout, iaArmedAt,
                   iaPoll, iaCmd, iaCmds, lastFire>>
    /\ UNCHANGED otherThanInteraction

\* The poll timer fires: retryApiCall(poller) starts.
IaTimerFires ==
    /\ iaTimeout # 0
    /\ iaNow = iaArmedAt + iaTimeout
    /\ iaTimeout' = 0
    /\ iaPoll' = "sent"
    /\ lastFire' = iaNow
    /\ UNCHANGED <<iaNow, lastInteractionTime, isStartup, iaArmedAt, iaCmd,
                   iaCmds, iaTicks>>
    /\ UNCHANGED otherThanInteraction

\* The poll chain ends, with a status or with the error of its last
\* attempt: both handlers call scheduleNextCheck.
IaPollEnds ==
    /\ iaPoll = "sent"
    /\ iaPoll' = "idle"
    /\ iaScheduleNextCheck
    /\ UNCHANGED <<iaNow, lastInteractionTime, iaCmd, iaCmds, lastFire,
                   iaTicks>>
    /\ UNCHANGED otherThanInteraction

\* TargetHeatingCoolingState onSet: the write is sent.
IaModeSet ==
    /\ ~isStartup
    /\ iaCmd = "none"
    /\ iaCmds < MaxIaCmds
    /\ iaCmd' = "write"
    /\ iaCmds' = iaCmds + 1
    /\ UNCHANGED <<iaNow, lastInteractionTime, isStartup, iaTimeout, iaArmedAt,
                   iaPoll, lastFire, iaTicks>>
    /\ UNCHANGED otherThanInteraction

\* The write is answered: updateControlFromResponse on success, the
\* status refetch after the last failed attempt.
IaCmdHandle(ok) ==
    /\ iaCmd = "write"
    /\ iaCmd' = "none"
    /\ lastInteractionTime' = IF ok THEN iaNow ELSE lastInteractionTime
    /\ UNCHANGED <<iaNow, isStartup, iaTimeout, iaArmedAt, iaPoll, iaCmds,
                   lastFire, iaTicks>>
    /\ UNCHANGED otherThanInteraction

IaNext ==
    \/ IaConstruct
    \/ \E d \in IaTickSteps : IaTick(d)
    \/ IaTickToTimer
    \/ IaTimerFires
    \/ IaPollEnds
    \/ IaModeSet
    \/ \E ok \in BOOLEAN : IaCmdHandle(ok)

IaSpecInit ==
    CacheInit /\ AccQuiet /\ IaInit /\ RetryQuiet /\ TempQuiet /\ NoChainPlatform

IaSpec == IaSpecInit /\ [][IaNext]_vars

----------------------------------------------------------------------------
(* Part IV: retryApiCall(operation, deviceName, operationName, maxRetries), *)
(* for an operation that settles whenever it is invoked.                    *)

\* The values of maxRetries; every caller in the accessory uses the default.
RetryLimits == 0..MAX_RETRIES

ResponseOf(k) == [status |-> 200, n |-> k]
ErrorOf(status, k) == [status |-> status, n |-> k]

\* Variant of ShouldRetry that gives up on an authentication rejection.
ShouldRetryUnlessAuth(error, attempt, limit) ==
    error.status # 403 /\ attempt <= limit

\* The .catch handler: whether another attempt follows this error.
ShouldRetry(error, attempt, limit) == attempt <= limit

\* Variant of retryDelay that grows by a fixed step.
retryDelayLinear(attempt) == INITIAL_RETRY_DELAY_MS * attempt

\* delay = INITIAL_RETRY_DELAY_MS * Math.pow(2, currentAttempt - 1)
retryDelay(attempt) == INITIAL_RETRY_DELAY_MS * Pow2(attempt - 1)

\* Variant of Rethrown that keeps the first error.
RethrownFirst(errors) == errors[1]

\* throw error: the error this .catch handler caught, the last one raised.
Rethrown(errors) == errors[Len(errors)]

\* retryApiCall has been called and has invoked operation().
RetryInit ==
    /\ maxRetries \in RetryLimits
    /\ currentAttempt = 1
    /\ invocations = 1
    /\ retryState = "calling"
    /\ settledWith = NoResult
    /\ raised = << >>
    /\ delays = << >>

OperationResolves ==
    /\ retryState = "calling"
    /\ retryState' = "resolved"
    /\ settledWith' = ResponseOf(invocations)
    /\ UNCHANGED <<maxRetries, currentAttempt, invocations, raised, delays>>
    /\ UNCHANGED otherThanRetry

OperationRejects(status) ==
    /\ retryState = "calling"
    /\ LET error == ErrorOf(status, invocations)
       IN  /\ raised' = Append(raised, error)
           /\ IF ShouldRetry(error, currentAttempt, maxRetries)
              THEN /\ retryState' = "waiting"
                   /\ delays' = Append(delays, retryDelay(currentAttempt))
                   /\ settledWith' = settledWith
              ELSE /\ retryState' = "rejected"
                   /\ settledWith' = Rethrown(raised')
                   /\ delays' = delays
    /\ UNCHANGED <<maxRetries, currentAttempt, invocations>>
    /\ UNCHANGED otherThanRetry

\* The delay has passed: retryApiCall(..., currentAttempt + 1).
RetryAfterDelay ==
    /\ retryState = "waiting"
    /\ retryState' = "calling"
    /\ currentAttempt' = currentAttempt + 1
    /\ invocations' = invocations + 1
    /\ UNCHANGED <<maxRetries, settledWith, raised, delays>>
    /\ UNCHANGED otherThanRetry

RetryNext ==
    \/ OperationResolves
    \/ \E status \in ErrorStatuses : OperationRejects(status)
    \/ RetryAfterDelay

RetrySpecInit ==
    CacheInit /\ AccQuiet /\ IaQuiet /\ RetryInit /\ TempQuiet /\ NoChainPlatform

\* The operation settles and the delays pass.
RetrySpec == RetrySpecInit /\ [][RetryNext]_vars /\ WF_vars(RetryNext)

----------------------------------------------------------------------------
(* Part V: the TargetTemperature characteristic.  Whether the accessory has *)
(* a snapshot is read from deviceStatus of Part II.  Celsius values are in  *)
(* tenths of a degree, Fahrenheit values in whole degrees.                  *)

Min(a, b) == IF a <= b THEN a ELSE b

\* setProps: minValue 12, maxValue 46.7
minValue == 120
maxValue == 467

\* What the displayed value is for the two sentinels.
HighDisplay == 467
LowDisplay == 122

\* The values HomeKit can set: the range in steps of 0.5, its maximum, and
\* the values the accessory itself displays.
Targets == {minValue + 5 * k : k \in 0..69} \cup {maxValue, HighDisplay, LowDisplay}

\* Math.round((tempC * (9 / 5)) + 32), for tempC = c / 10 >= 0
toFahrenheit(c) == (9 * c + 1600 + 25) \div 50

\* Variant of apiTempOf that maps the thresholds themselves as well.
apiTempAtThreshold(tempF) ==
    IF tempF >= HIGH_TEMP_THRESHOLD_F THEN HIGH_TEMP_TARGET_F
    ELSE IF tempF <= LOW_TEMP_THRESHOLD_F THEN LOW_TEMP_TARGET_F
    ELSE tempF

\* onSet: apiTemp
apiTempOf(tempF) ==
    IF tempF > HIGH_TEMP_THRESHOLD_F THEN HIGH_TEMP_TARGET_F
    ELSE IF tempF < LOW_TEMP_THRESHOLD_F THEN LOW_TEMP_TARGET_F
    ELSE tempF

clampTemperature(v, lo, hi) == Max(lo, Min(hi, v))

\* Variant of targetTemp that only clamps set_temperature_c.
targetTempClampOnly(control) == clampTemperature(control.c, minValue, maxValue)

\* publishUpdates and onGet: the value of TargetTemperature.
targetTemp(control) ==
    clampTemperature(
        IF control.f >= HIGH_TEMP_TARGET_F THEN HighDisplay
        ELSE IF control.f <= LOW_TEMP_TARGET_F THEN LowDisplay
        ELSE control.c,
        minValue, maxValue)

\* What the device can report as set_temperature_c once it holds f: its
\* own conversion of f, or the value it had.
ReportedCelsius(f) == {((f - 32) * 50) \div 9, deviceTemp.c}

TempInit == TempQuiet

\* Variant of TemperatureSet that does not look for a snapshot.
TemperatureSetUnguarded(c) ==
    /\ tempPhase = "idle"
    /\ tempSets + tempIgnored < MaxTempSets
    /\ LET tempF == toFahrenheit(c)
       IN  /\ snapshotTemp' = [f |-> tempF, c |-> c]
           /\ apiTemp' = apiTempOf(tempF)
           /\ displayed' = targetTemp([f |-> tempF, c |-> c])
    /\ target' = c
    /\ setByDisplay' = (c = displayed)
    /\ tempSets' = tempSets + 1
    /\ tempPhase' = "sent"
    /\ UNCHANGED <<deviceTemp, tempIgnored>>
    /\ UNCHANGED otherThanTemperature

\* onSet(c / 10): with a snapshot, the optimistic update, publishUpdates and
\* the write; without one, nothing.
TemperatureSet(c) ==
    /\ tempPhase = "idle"
    /\ tempSets + tempIgnored < MaxTempSets
    /\ IF deviceStatus.mode # "null"
       THEN /\ LET tempF == toFahrenheit(c)
               IN  /\ snapshotTemp' = [f |-> tempF, c |-> c]
                   /\ apiTemp' = apiTempOf(tempF)
                   /\ displayed' = targetTemp([f |-> tempF, c |-> c])
            /\ target' = c
            /\ setByDisplay' = (c = displayed)
            /\ tempSets' = tempSets + 1
            /\ tempPhase' = "sent"
            /\ tempIgnored' = tempIgnored
       ELSE /\ tempIgnored' = tempIgnored + 1
            /\ UNCHANGED <<snapshotTemp, apiTemp, displayed, target,
                           setByDisplay, tempSets, tempPhase>>
    /\ UNCHANGED deviceTemp
    /\ UNCHANGED otherThanTemperature

\* The write succeeds, the device holds the value written, and the status
\* fetched afterwards becomes the snapshot.
TemperatureReported(c) ==
    /\ tempPhase = "sent"
    /\ c \in ReportedCelsius(apiTemp)
    /\ deviceTemp' = [f |-> apiTemp, c |-> c]
    /\ snapshotTemp' = deviceTemp'
    /\ displayed' = targetTemp(deviceTemp')
    /\ tempPhase' = "idle"
    /\ UNCHANGED <<tempSets, tempIgnored, target, setByDisplay, apiTemp>>
    /\ UNCHANGED otherThanTemperature

\* The write fails after its retries; the status fetched then, if that
\* succeeds, becomes the snapshot.
TemperatureWriteFails(refetched) ==
    /\ tempPhase = "sent"
    /\ snapshotTemp' = IF refetched THEN deviceTemp ELSE snapshotTemp
    /\ displayed' = IF refetched THEN targetTemp(deviceTemp) ELSE displayed
    /\ tempPhase' = "idle"
    /\ UNCHANGED <<tempSets, tempIgnored, target, setByDisplay, apiTemp,
                   deviceTemp>>
    /\ UNCHANGED otherThanTemperature

TempNext ==
    \/ \E c \in Targets : TemperatureSet(c)
    \/ \E c \in ReportedCelsius(apiTemp) : TemperatureReported(c)
    \/ \E refetched \in BOOLEAN : TemperatureWriteFails(refetched)

TempSpecInit ==
    /\ CacheInit /\ AccSnapshot /\ IaQuiet /\ RetryQuiet
    /\ TempInit /\ NoChainPlatform

TempSpec == TempSpecInit /\ [][TempNext]_vars

\* ---- both characteristics of an accessory before its first snapshot ----

\* The accessory while no status request has succeeded: the constructor's
\* request and the rollback requests of the commands are unanswered or fail.
EarlyNext ==
    \/ InitHandle(FALSE)
    \/ \E t \in Modes : ModeSet(t)
    \/ \E i \in 1..Len(cmds), o \in WriteOutcomes : CmdAnswerWrite(i, o)
    \/ \E i \in 1..Len(cmds) : CmdHandle(i)
    \/ \E i \in 1..Len(cmds) : CmdRefetchHandle(i, FALSE)
    \/ \E i \in 1..Len(cmds) : CmdRetry(i)
    \/ \E i \in 1..Len(cmds) : CmdMismatchRetry(i)
    \/ \E c \in Targets : TemperatureSet(c)

EarlySpecInit ==
    /\ CacheInit /\ AccInit /\ IaQuiet /\ RetryQuiet
    /\ TempInit /\ NoChainPlatform

EarlySpec == EarlySpecInit /\ [][EarlyNext]_vars

----------------------------------------------------------------------------
(* Part VI: the promise chains of the engine.  A chain is a promise and the *)
(* handlers attached to it in order: a .then handler runs when the promise  *)
(* that reaches it is fulfilled, a .catch handler when it is rejected, and  *)
(* the promise passes a handler of the other kind unchanged.  A handler     *)
(* returns, throws, or returns the promise of another chain, whose          *)
(* settlement is then the one that travels on.                              *)

Then(h) == [on |-> "fulfilled", h |-> h]
Catch(h) == [on |-> "rejected", h |-> h]

\* client.getDeviceStatus(...).then(assign, publish).catch(log)
InitialFetchChain ==
    [start |-> "request", links |-> <<Then("assign"), Catch("log")>>]

\* operation().catch(error => ...)
RetryApiCallChain ==
    [start |-> "request", links |-> <<Catch("retryCatch")>>]

\* new Promise(resolve => setTimeout(resolve, delay)).then(() => retryApiCall)
RetryDelayChain ==
    [start |-> "delay", links |-> <<Then("retryAgain")>>]

\* retryApiCall(poller).then(s => ...).catch(error => ...)
PollChain ==
    [start |-> "retryApiCall",
     links |-> <<Then("pollThen"), Catch("pollCatch")>>]

\* client.getDeviceStatus(...).then(store).catch(backoff)
CacheChain ==
    [start |-> "request", links |-> <<Then("store"), Catch("backoff")>>]

\* retryApiCall(write).then(compare).then(update).catch(rollback)
ModeChain ==
    [start |-> "retryApiCall",
     links |-> <<Then("compare"), Then("update"), Catch("rollback")>>]

\* new Promise(... STATE_MISMATCH_RETRY_DELAY_MS).then(write).then(r => ...)
ReissueChain ==
    [start |-> "delay", links |-> <<Then("write"), Then("compareAgain")>>]

\* The promise of a client call that a handler returns.
RequestChain == [start |-> "request", links |-> << >>]

\* Variant of RefetchChain without its .catch.
RefetchChainNoCatch ==
    [start |-> "request", links |-> <<Then("assign")>>]

\* client.getDeviceStatus(...).then(assign, publish).catch(log), returned by
\* the .catch handler of a command's chain.
RefetchChain ==
    [start |-> "request", links |-> <<Then("assign"), Catch("log")>>]

\* retryApiCall(write).then(getDeviceStatus).then(assign).catch(rollback)
TemperatureChain ==
    [start |-> "retryApiCall",
     links |-> <<Then("getStatus"), Then("assign"), Catch("rollback")>>]

\* The chains that the engine starts from a constructor, a timer callback or
\* a characteristic handler.
RootChains == {"initial", "poll", "cache", "mode", "temperature"}

ChainOf(name) ==
    CASE name = "initial" -> InitialFetchChain
      [] name = "poll" -> PollChain
      [] name = "cache" -> CacheChain
      [] name = "mode" -> ModeChain
      [] name = "temperature" -> TemperatureChain
      [] name = "retryApiCall" -> RetryApiCallChain
      [] name = "retryDelay" -> RetryDelayChain
      [] name = "reissue" -> ReissueChain
      [] name = "request" -> RequestChain
      [] name = "refetch" -> RefetchChain

\* handleStateMismatch(..., retryCount): gives up, which reads
\* this.deviceStatus!.control, or waits and re-issues the write.
MismatchOutcome(retryCount) ==
    IF retryCount >= MAX_STATE_MISMATCH_RETRIES
    THEN IF hasSnapshot THEN "return" ELSE "throw"
    ELSE "reissue"

\* What handler h does: "return", "throw", or the chain whose promise it
\* returns.  match: the response carries the mode the command asked for (or
\* no expectation is live any more).
Outcome(h, match) ==
    CASE h = "retryCatch" ->
           IF chAttempt <= MAX_RETRIES THEN "retryDelay" ELSE "throw"
      [] h = "retryAgain" -> "retryApiCall"
      [] h = "compare" -> IF match THEN "return" ELSE MismatchOutcome(0)
      [] h = "compareAgain" ->
           IF match THEN "return" ELSE MismatchOutcome(chRetryCount + 1)
      [] h = "write" -> "request"
      [] h = "getStatus" -> "request"
      [] h = "rollback" -> "refetch"
      [] h \in {"assign", "log", "pollThen", "pollCatch", "store", "backoff",
                "update"} -> "return"

\* The temperature handler sends nothing without a snapshot.
ChainInit ==
    /\ chainRoot \in RootChains
    /\ chainStack = <<[name |-> chainRoot, at |-> 0]>>
    /\ settlement = "pending"
    /\ waiting = "none"
    /\ hasSnapshot \in {b \in BOOLEAN : chainRoot = "temperature" => b}
    /\ chAttempt = 1
    /\ chRetryCount = 0
    /\ ended = "none"

Top == chainStack[Len(chainStack)]

Advanced == [chainStack EXCEPT ![Len(chainStack)].at = Top.at + 1]

\* The innermost chain starts: a request is sent, a delay begins, or the
\* chain it starts with starts.
Begin ==
    /\ chainStack # << >>
    /\ Top.at = 0
    /\ LET s == ChainOf(Top.name).start
       IN  IF s \in {"request", "delay"}
           THEN /\ chainStack' = Advanced
                /\ waiting' = s
           ELSE /\ chainStack' = Append(Advanced, [name |-> s, at |-> 0])
                /\ waiting' = waiting
    /\ UNCHANGED <<chainRoot, settlement, hasSnapshot, chAttempt,
                   chRetryCount, ended>>
    /\ UNCHANGED otherThanChains

\* The request is answered, with a response or with an error.
RequestSettles(ok) ==
    /\ waiting = "request"
    /\ waiting' = "none"
    /\ settlement' = IF ok THEN "fulfilled" ELSE "rejected"
    /\ UNCHANGED <<chainRoot, chainStack, hasSnapshot, chAttempt,
                   chRetryCount, ended>>
    /\ UNCHANGED otherThanChains

DelayPasses ==
    /\ waiting = "delay"
    /\ waiting' = "none"
    /\ settlement' = "fulfilled"
    /\ UNCHANGED <<chainRoot, chainStack, hasSnapshot, chAttempt,
                   chRetryCount, ended>>
    /\ UNCHANGED otherThanChains

\* The settled promise reaches the next link of the innermost chain.
RunLink(match) ==
    /\ chainStack # << >>
    /\ settlement # "pending"
    /\ Top.at >= 1
    /\ Top.at <= Len(ChainOf(Top.name).links)
    /\ LET link == ChainOf(Top.name).links[Top.at]
           o == Outcome(link.h, match)
       IN  IF link.on # settlement
           THEN /\ chainStack' = Advanced
                /\ UNCHANGED <<settlement, hasSnapshot, chAttempt,
                               chRetryCount>>
           ELSE /\ settlement' = CASE o = "return" -> "fulfilled"
                                   [] o = "throw" -> "rejected"
                                   [] OTHER -> "pending"
                /\ chainStack' = IF o \in {"return", "throw"} THEN Advanced
                                 ELSE Append(Advanced, [name |-> o, at |-> 0])
                /\ hasSnapshot' = (hasSnapshot \/ link.h \in {"assign", "pollThen"})
                /\ chAttempt' = IF link.h = "retryAgain"
                                THEN chAttempt + 1 ELSE chAttempt
                /\ chRetryCount' = IF link.h = "compareAgain" /\ ~match
                                   THEN chRetryCount + 1 ELSE chRetryCount
    /\ UNCHANGED <<chainRoot, waiting, ended>>
    /\ UNCHANGED otherThanChains

\* The innermost chain has no link left: its last promise is the one the
\* handler that started it returned, or, for the outermost chain, one that
\* nobody holds.
FrameEnds ==
    /\ chainStack # << >>
    /\ settlement # "pending"
    /\ Top.at > Len(ChainOf(Top.name).links)
    /\ chainStack' = SubSeq(chainStack, 1, Len(chainStack) - 1)
    /\ ended' = IF Len(chainStack) = 1 THEN settlement ELSE ended
    /\ UNCHANGED <<chainRoot, settlement, waiting, hasSnapshot, chAttempt,
                   chRetryCount>>
    /\ UNCHANGED otherThanChains

ChainNext ==
    \/ Begin
    \/ \E ok \in BOOLEAN : RequestSettles(ok)
    \/ DelayPasses
    \/ \E match \in BOOLEAN : RunLink(match)
    \/ FrameEnds

ChainSpecInit ==
    /\ CacheInit /\ AccQuiet /\ NoInteractionRetryTemp
    /\ ChainInit /\ PlatformQuiet /\ IntervalQuiet

ChainSpec == ChainSpecInit /\ [][ChainNext]_vars

----------------------------------------------------------------------------
(* Part VII: SleepmePlatform.  A key is its characters; the API lists one   *)
(* device for a key, and it may list the same device for two keys (a key    *)
(* configured twice, two tokens of one account).  A device's UUID is        *)
(* generated from its id, so a device stands for its UUID.                  *)

Devices == 1..MaxKeys

ShortKey == [isString |-> TRUE, chars |-> <<"a", "b", "c">>]
LongKey == [isString |-> TRUE, chars |-> <<"s", "k", "-", "1", "2", "3", "4">>]
NumberKey == [isString |-> FALSE, chars |-> << >>]

KeyPool == {ShortKey, LongKey, NumberKey}

KeyLists == UNION {[1..n -> KeyPool] : n \in 0..MaxKeys}

\* config.api_keys is missing, an object that is not an array, or an array.
Configs ==
    [api_keys : {[kind |-> "undefined", items |-> << >>],
                 [kind |-> "object", items |-> << >>]}
                \cup {[kind |-> "array", items |-> l] : l \in KeyLists},
     sleepme_api_url : {"undefined", "url"}]

NoKeysMessage == "No API keys configured - plugin will not start"
NoUrlMessage == "Missing SleepMe API URL - plugin will not start"
BadKeysMessage == "Some API keys are invalid"
InvalidTokenMessage == "the token ending in ${token} is invalid."
DiscoveryErrorMessage == "error during device discovery (${err})"

LogEntry(text, token) == [text |-> text, token |-> token]

\* Variant of validateConfig that only tests whether api_keys is there.
validateConfigNoArrayTest(c) ==
    IF c.api_keys.kind = "undefined"
    THEN [valid |-> FALSE, message |-> NoKeysMessage]
    ELSE IF c.sleepme_api_url = "undefined"
    THEN [valid |-> FALSE, message |-> NoUrlMessage]
    ELSE IF \E i \in 1..Len(c.api_keys.items) : ~c.api_keys.items[i].isString
    THEN [valid |-> FALSE, message |-> BadKeysMessage]
    ELSE [valid |-> TRUE, message |-> ""]

validateConfig(c) ==
    IF c.api_keys.kind = "undefined" \/ c.api_keys.kind # "array"
    THEN [valid |-> FALSE, message |-> NoKeysMessage]
    ELSE IF c.sleepme_api_url = "undefined"
    THEN [valid |-> FALSE, message |-> NoUrlMessage]
    ELSE IF \E i \in 1..Len(c.api_keys.items) : ~c.api_keys.items[i].isString
    THEN [valid |-> FALSE, message |-> BadKeysMessage]
    ELSE [valid |-> TRUE, message |-> ""]

\* String.prototype.substring(start): a negative start counts as 0.
substring(str, start) == SubSeq(str, Max(start, 0) + 1, Len(str))

\* The constructor: it logs and returns, or registers its listener.
PlatformInit ==
    /\ config \in Configs
    /\ platLog = IF validateConfig(config).valid THEN {}
                 ELSE {LogEntry(validateConfig(config).message, << >>)}
    /\ listening = validateConfig(config).valid
    /\ launched = FALSE
    /\ discovery = "none"
    /\ keyAnswer = [i \in 1..Len(config.api_keys.items) |-> 0]
    /\ keyPromise = [i \in 1..Len(config.api_keys.items) |-> "none"]
    /\ cached = {}
    /\ registered = {}
    /\ listed \in [1..Len(config.api_keys.items) -> Devices]
    /\ registerCalls = << >>

\* configureAccessory: Homebridge restores an accessory from its disk cache,
\* before it emits didFinishLaunching.
ConfigureAccessory(d) ==
    /\ ~launched
    /\ d \notin cached
    /\ cached' = cached \cup {d}
    /\ UNCHANGED <<config, platLog, listening, launched, discovery, keyAnswer,
                   keyPromise, registered, listed, registerCalls>>
    /\ UNCHANGED otherThanPlatform

\* Homebridge emits didFinishLaunching: the listener, if there is one, calls
\* discoverDevices, which sends listDevices for every key.
DidFinishLaunching ==
    /\ ~launched
    /\ launched' = TRUE
    /\ discovery' = IF listening THEN "pending" ELSE discovery
    /\ keyPromise' = IF listening
                     THEN [i \in DOMAIN keyPromise |-> "pending"]
                     ELSE keyPromise
    /\ UNCHANGED <<config, platLog, listening, keyAnswer, cached, registered,
                   listed, registerCalls>>
    /\ UNCHANGED otherThanPlatform

\* The .then handler of listDevices for key i: the device listed is
\* registered unless this.accessories, the accessories restored, holds it.
ListThen(i) ==
    [log |-> {}, reg |-> IF listed[i] \in cached THEN {} ELSE {listed[i]},
     settled |-> "fulfilled"]

\* Variant of ListCatch that passes the error on.
ListCatchRethrow(i, status) ==
    [log |-> IF status = 403
             THEN {LogEntry(InvalidTokenMessage,
                            substring(config.api_keys.items[i].chars,
                                      Len(config.api_keys.items[i].chars) - 4))}
             ELSE {},
     reg |-> {},
     settled |-> "rejected"]

\* The .catch handler of listDevices for key i.
ListCatch(i, status) ==
    [log |-> IF status = 403
             THEN {LogEntry(InvalidTokenMessage,
                            substring(config.api_keys.items[i].chars,
                                      Len(config.api_keys.items[i].chars) - 4))}
             ELSE {},
     reg |-> {},
     settled |-> "fulfilled"]

ListStatuses == {200, 403, 500}

\* listDevices for key i is answered and the answer handled.
ListAnswer(i, status) ==
    /\ keyPromise[i] = "pending"
    /\ keyAnswer' = [keyAnswer EXCEPT ![i] = status]
    /\ LET r == IF status = 200 THEN ListThen(i) ELSE ListCatch(i, status)
       IN  /\ platLog' = platLog \cup r.log
           /\ registered' = registered \cup r.reg
           /\ registerCalls' = IF r.reg = {} THEN registerCalls
                               ELSE Append(registerCalls, listed[i])
           /\ keyPromise' = [keyPromise EXCEPT ![i] = r.settled]
    /\ UNCHANGED <<config, listening, launched, discovery, cached, listed>>
    /\ UNCHANGED otherThanPlatform

\* Promise.all
PromiseAll(ps) ==
    IF \E i \in DOMAIN ps : ps[i] = "rejected" THEN "rejected"
    ELSE IF \A i \in DOMAIN ps : ps[i] = "fulfilled" THEN "fulfilled"
    ELSE "pending"

\* The promise of discoverDevices settles; the listener logs a rejection.
DiscoverySettles ==
    /\ discovery = "pending"
    /\ PromiseAll(keyPromise) # "pending"
    /\ discovery' = PromiseAll(keyPromise)
    /\ platLog' = IF PromiseAll(keyPromise) = "rejected"
                  THEN platLog \cup {LogEntry(DiscoveryErrorMessage, << >>)}
                  ELSE platLog
    /\ UNCHANGED <<config, listening, launched, keyAnswer, keyPromise, cached,
                   registered, listed, registerCalls>>
    /\ UNCHANGED otherThanPlatform

PlatformNext ==
    \/ \E d \in Devices : ConfigureAccessory(d)
    \/ DidFinishLaunching
    \/ \E i \in DOMAIN keyAnswer, status \in ListStatuses : ListAnswer(i, status)
    \/ DiscoverySettles

PlatformSpecInit ==
    /\ CacheInit /\ AccQuiet /\ NoInteractionRetryTemp
    /\ ChainQuiet /\ PlatformInit /\ IntervalQuiet

PlatformSpec == PlatformSpecInit /\ [][PlatformNext]_vars

----------------------------------------------------------------------------
(* Part VIII: the poll intervals that the constructors of the two variants *)
(* take from the configuration, and the timers armed with them.  The       *)
(* settings are whole numbers, so the intervals are whole seconds; they    *)
(* are kept in seconds, the delays of the timers in milliseconds.          *)

\* The settings tried: unset, or a number of seconds or minutes around the
\* floor, the default and the largest delay a timer can have.
ActiveSecondsTried == {-1, 0, 4, 5, 6, 45, 2147483, 2147484}
MinutesTried == {-1, 0, 1, 2, 15, 35791, 35792}

Unset == [set |-> FALSE, v |-> 0]
Setting(n) == [set |-> TRUE, v |-> n]

\* this.activePollingIntervalMs for config.active_polling_interval_seconds
activeIntervalOf(c) ==
    IF c.set
    THEN IF c.v < 5 THEN 5 ELSE c.v
    ELSE DEFAULT_ACTIVE_POLLING_INTERVAL_SECONDS

\* this.standbyPollingIntervalMs for config.standby_polling_interval_minutes
standbyIntervalOf(c) ==
    IF c.set
    THEN IF c.v < 1 THEN 60 ELSE c.v * 60
    ELSE DEFAULT_STANDBY_POLLING_INTERVAL_MINUTES * 60

\* this.slowPollingIntervalMs for config.slow_polling_interval_minutes
slowIntervalOf(c) ==
    IF c.set
    THEN IF c.v < 1 THEN 60 ELSE c.v * 60
    ELSE DEFAULT_SLOW_POLLING_INTERVAL_MINUTES * 60

\* The delay in ms that a timer of Node.js runs with when setTimeout is
\* given seconds * 1000: a delay below 1 or above 2^31 - 1 ms is taken
\* for 1 ms.
TIMEOUT_MAX == (2^30 - 1) + 2^30

TimerDelay(seconds) ==
    IF seconds >= 1 /\ seconds <= TIMEOUT_MAX \div 1000
    THEN seconds * 1000 ELSE 1

IntervalInit ==
    /\ pollConfig \in
          [active : {Unset} \cup {Setting(n) : n \in ActiveSecondsTried},
           standby : {Unset} \cup {Setting(n) : n \in MinutesTried},
           slow : {Unset} \cup {Setting(n) : n \in MinutesTried}]
    /\ intervalsSec = [active |-> 0, standby |-> 0, slow |-> 0]
    /\ armedWith = "none"
    /\ armedDelay = 0

\* The constructors read the configuration.
ConstructIntervals ==
    /\ intervalsSec.active = 0
    /\ intervalsSec' = [active |-> activeIntervalOf(pollConfig.active),
                       standby |-> standbyIntervalOf(pollConfig.standby),
                       slow |-> slowIntervalOf(pollConfig.slow)]
    /\ UNCHANGED <<pollConfig, armedWith, armedDelay>>
    /\ UNCHANGED otherThanIntervals

\* scheduleNextCheck of the activity-based variant, for a snapshot in the
\* mode given ("null" when there is none).
ArmByState(mode) ==
    /\ intervalsSec.active # 0
    /\ LET interval == IF mode = "null" \/ mode = "active"
                       THEN intervalsSec.active
                       ELSE intervalsSec.standby
       IN  /\ armedWith' = IF mode = "standby" THEN "standby" ELSE "active"
           /\ armedDelay' = TimerDelay(interval)
    /\ UNCHANGED <<pollConfig, intervalsSec>>
    /\ UNCHANGED otherThanIntervals

\* scheduleNextCheck of the interaction-based variant, soon after an
\* interaction (fast) or not.
ArmByRecency(fast) ==
    /\ intervalsSec.active # 0
    /\ armedWith' = IF fast THEN "fast" ELSE "slow"
    /\ armedDelay' = TimerDelay(IF fast THEN FAST_POLLING_INTERVAL_MS \div 1000
                                ELSE intervalsSec.slow)
    /\ UNCHANGED <<pollConfig, intervalsSec>>
    /\ UNCHANGED otherThanIntervals

IntervalNext ==
    \/ ConstructIntervals
    \/ \E mode \in Modes \cup {"null"} : ArmByState(mode)
    \/ \E fast \in BOOLEAN : ArmByRecency(fast)

IntervalSpecInit ==
    /\ CacheInit /\ AccQuiet /\ NoInteractionRetryTemp
    /\ ChainQuiet /\ PlatformQuiet /\ IntervalInit

IntervalSpec == IntervalSpecInit /\ [][IntervalNext]_vars

----------------------------------------------------------------------------
(* Claims about ReadThroughCache *)

Pending == {k \in 1..Len(promise) : promise[k] = "pending"}

\* A step that is one get() call.
GetStep == Len(calls') = Len(calls) + 1

\* A step in which the .catch handler of a fetch runs.
FailureStep == errorCount' = errorCount + 1

\* C1: the get() calls issued before any response has arrived (no value is
\* cached, no earlier fetch is in flight when the first of them is made) all
\* return the promise of one and the same fetch, the endpoint receives
\* exactly one request for them, and they all resolve with the same value.
C1_SingleFlight ==
    \A i \in 1..Len(calls) :
        calls[i].epoch = 0 =>
            /\ calls[i].p = 1
            /\ Completed = 0 => Len(promise) = 1
            /\ \A j \in 1..Len(calls) :
                   calls[j].epoch = 0 => Result(j) = Result(i)

C1_Witness ==
    /\ Len(calls) = 4
    /\ \A i \in 1..4 : calls[i].epoch = 0 /\ Result(i) \in Data
    /\ Len(promise) = 1

\* C2: at most one fetch is outstanding in every reachable state, and a
\* get() call made while a fetch is outstanding returns the promise of that
\* fetch and sends no request, whether or not a value is stored or expired.
C2_AtMostOneFetch ==
    /\ [](Cardinality(Pending) <= 1)
    /\ [][GetStep /\ Pending # {} =>
            /\ promise' = promise
            /\ calls'[Len(calls')].p \in Pending]_vars

C2_Witness ==
    /\ value # "none"
    /\ now >= responseExpireAt
    /\ Cardinality(Pending) = 1
    /\ Cardinality({i \in 1..Len(calls) : calls[i].p \in Pending}) >= 2

\* C3: a get() call made after a successful fetch and less than 1000 ms
\* after its response sends no request and resolves at once with the value
\* that fetch stored.
C3_FreshHit ==
    [][/\ GetStep
       /\ value # "none"
       /\ errorCount = 0
       /\ responseTimestamp # NoTime
       /\ now < responseTimestamp + 1000
       => /\ promise' = promise
          /\ calls'[Len(calls')].p = 0
          /\ calls'[Len(calls')].v = value
          /\ \E k \in 1..Len(promise) : promise[k] = value]_vars

C3_Witness ==
    /\ Len(calls) >= 2
    /\ calls[Len(calls)].p = 0
    /\ calls[Len(calls)].v = value
    /\ lastStatus = 200
    /\ now = responseTimestamp + 500
    /\ Len(promise) = 1

\* C4: when the first fetch fails (429, 500 or 403) and no value has ever
\* been stored, exactly one request has been sent and every get() call made
\* so far resolves with null; none is rejected.
C4_FailureWithoutValue ==
    [][/\ FailureStep
       /\ value = "none"
       /\ errorCount = 0
       /\ lastStatus' \in {429, 500, 403}
       => /\ Len(promise') = 1
          /\ \A i \in 1..Len(calls) : Result(i)' = "null"]_vars

C4_Witness ==
    /\ lastStatus = 403
    /\ value = "none"
    /\ Len(promise) = 1
    /\ Len(calls) >= 2
    /\ \A i \in 1..Len(calls) : Result(i) = "null"

\* C5: when a fetch fails while a value is stored, the promise of that fetch
\* resolves with the stored value, which is kept; and no get() call made
\* while a value is stored is rejected or resolves with null.
C5_StaleOnFailure ==
    /\ [](\A i \in 1..Len(calls) :
             calls[i].had => Result(i) \in Data \cup {"pending"})
    /\ [][FailureStep /\ value # "none" =>
            /\ value' = value
            /\ \A k \in Pending : promise'[k] = value]_vars

C5_Witness ==
    /\ value # "none"
    /\ errorCount = 1
    /\ lastStatus = 429
    /\ Len(promise) = 2
    /\ promise[2] = value
    /\ \E i \in 1..Len(calls) : calls[i].p = 2 /\ calls[i].had

\* The window a failure sets: validUntil minus the time of the failure.
Window == responseExpireAt - now

C7_RefetchAfterFailure ==
    [][/\ GetStep
       /\ errorCount > 0
       /\ Pending = {}
       /\ ~(value # "none" /\ now < responseExpireAt)
       => Len(promise') = Len(promise) + 1]_vars

\* C25: no step moves responseExpireAt backwards (undefined counts as
\* earlier than every time): not the .then handler, which sets it to now +
\* expirationMS, nor the .catch handler, which sets it to now + the backoff.
C25_ExpiryNeverDecreases ==
    [][responseExpireAt' >= responseExpireAt]_vars

\* A success and then a failure have both written responseExpireAt.
C25_Witness ==
    /\ value # "none"
    /\ errorCount = 1
    /\ lastStatus \in ErrorStatuses
    /\ responseExpireAt >= responseTimestamp + 1000 + 60000

\* A step in which a pending fetch is answered with an error status.
ErrorAnswerStep ==
    /\ \E k \in Pending : promise'[k] # "pending"
    /\ lastStatus' \in ErrorStatuses

\* C26: the .catch handler of a fetch, when a value is stored, adds one to
\* errorCount and sets responseExpireAt to now + max(2^errorCount * 1000,
\* 60000) with the new count; a get() made before that time with the value
\* stored sends no request.
C26_BackoffFromNewCount ==
    [][/\ (ErrorAnswerStep /\ value # "none") =>
            LET grown == Pow2(errorCount + 1) * 1000
            IN  /\ errorCount' = errorCount + 1
                /\ responseExpireAt' =
                       now + (IF grown > 60000 THEN grown ELSE 60000)
       /\ (GetStep /\ value # "none" /\ errorCount >= 1
                   /\ now < responseExpireAt) =>
            Len(promise') = Len(promise)]_vars

\* The sixth consecutive failure set a window of 64 s; one second later a
\* get() was made and answered from the stored value.
C26_Witness ==
    /\ errorCount = 6
    /\ promise[1] \in Data
    /\ ticks = 1
    /\ responseExpireAt - now = 63000
    /\ Len(calls) = 2 /\ calls[2].p = 0
    /\ Len(promise) = 1

----------------------------------------------------------------------------
(* Claims about the mode commands *)

\* A step that issues a mode command.
CommandStep == Len(cmds') = Len(cmds) + 1

AllCommandsDone ==
    /\ Len(cmds) >= 1
    /\ \A i \in 1..Len(cmds) : cmds[i].pc = "done"

\* C8: the step that issues a mode command while a snapshot exists sets the
\* snapshot's thermal mode to the target and publishes it; in that step the
\* write is sent and no answer of any request is handled.
C8_OptimisticAtOnce ==
    [][CommandStep /\ deviceStatus.mode # "null" =>
          LET c == cmds'[Len(cmds')]
          IN  /\ deviceStatus'.mode = c.target
              /\ published' = deviceStatus'
              /\ expectedThermalState' = c.target
              /\ c.pc = "write" /\ c.att = 1
              /\ polls' = polls /\ initFetch' = initFetch
              /\ server' = server]_vars

C8_Witness ==
    /\ Len(cmds) = 1
    /\ cmds[1].pc = "write" /\ cmds[1].att = 1
    /\ cmds[1].target = "active"
    /\ server.mode = "standby"
    /\ initFetch = "done"
    /\ deviceStatus.mode = "active"
    /\ published.mode = "active"
    /\ expectedThermalState = "active"

\* C9 as stated: once every mode command issued has finished, on whatever
\* path, no expected state is left.
C9_NoExpectationLeft ==
    AllCommandsDone => expectedThermalState = "null"

\* C10 as stated: the published thermal mode eventually equals the server's
\* mode and stays equal to it.
C10_EventuallyConsistent ==
    <>[](published.mode = server.mode)

\* A step in which command i's last attempt of the write is found failed.
WriteExhaustedStep(i) ==
    /\ cmds[i].pc = "write_ans" /\ ~cmds[i].ok
    /\ ~RetryAllowed(cmds[i].att)
    /\ cmds'[i].pc # "write_ans"

\* A step in which the status request of command i's .catch handler is
\* answered with a status.
RefetchOkStep(i) ==
    /\ cmds[i].pc = "refetch"
    /\ cmds'[i].pc = "done" /\ cmds'[i].out # "refetchfailed"

\* C21: when the last attempt of a mode command's write has failed, the
\* device status is requested again and nothing else changes; when that
\* request is answered with a status, the snapshot becomes the status the
\* server holds, the expected state is cleared and the snapshot is published,
\* all in the step that handles the answer.
C21_RollbackOnFailure ==
    [][\A i \in 1..Len(cmds) :
          /\ WriteExhaustedStep(i) =>
                /\ cmds'[i].pc = "refetch"
                /\ deviceStatus' = deviceStatus
                /\ expectedThermalState' = expectedThermalState
                /\ published' = published
          /\ RefetchOkStep(i) =>
                /\ deviceStatus' = server
                /\ expectedThermalState' = "null"
                /\ published' = server]_vars

\* A command to switch on has failed four times and has been rolled back:
\* the snapshot and the published state show the server's standby again.
C21_Witness ==
    /\ Len(cmds) = 1
    /\ cmds[1].target = "active" /\ cmds[1].out = "rolledback"
    /\ server.mode = "standby"
    /\ deviceStatus = server /\ published = server
    /\ expectedThermalState = "null"
    /\ lastPoll = NoPoll

\* C27 as stated: while an expected state is set and a snapshot exists, the
\* snapshot's thermal mode is the expected mode.
C27_OptimisticModeKept ==
    (expectedThermalState # "null" /\ deviceStatus.mode # "null") =>
        deviceStatus.mode = expectedThermalState

----------------------------------------------------------------------------
(* Claims about the reconciliation of a mode command *)

\* A step in which the answer to command i's write is handled, it is a
\* response, and it reports another mode than the target.
MismatchStep(i, pc) ==
    /\ cmds[i].pc = pc /\ cmds[i].ok
    /\ cmds[i].data.mode # cmds[i].target
    /\ cmds'[i].pc # pc

\* A step in which handleStateMismatch's delay has passed and the write of
\* command i is sent again.
ReissueStep(i) == cmds[i].pc = "mmwait" /\ cmds'[i].pc = "mmwrite"

\* C28: a response to the first write that reports another mode than the
\* target, while the target is the expected state, starts a delay of 5000 ms
\* with retryCount 0 and changes nothing else; the write is re-issued after
\* such a delay only, with retryCount 0, 1 or 2, hence at most three times
\* per command; a response to a re-issue that reports the target ends the
\* command, and one that reports another mode starts the next delay of
\* 5000 ms with retryCount one higher, or ends the loop when that count is 3.
C28_BoundedReissue ==
    [][\A i \in 1..Len(cmds) :
          /\ (MismatchStep(i, "write_ans")
                 /\ expectedThermalState = cmds[i].target) =>
                /\ cmds'[i].pc = "mmwait" /\ cmds'[i].rc = 0
                /\ cmds'[i].delay = 5000
                /\ deviceStatus' = deviceStatus
                /\ expectedThermalState' = expectedThermalState
          /\ ReissueStep(i) =>
                /\ cmds[i].delay = 5000
                /\ cmds[i].rc \in 0..2
                /\ cmds'[i].rc = cmds[i].rc
                /\ cmds'[i].target = cmds[i].target
          /\ (cmds[i].pc = "mmwrite_ans" /\ cmds[i].ok
                 /\ cmds[i].data.mode = cmds[i].target
                 /\ cmds'[i].pc # "mmwrite_ans") =>
                cmds'[i].pc = "done"
          /\ MismatchStep(i, "mmwrite_ans") =>
                IF cmds[i].rc + 1 < 3
                THEN /\ cmds'[i].pc = "mmwait"
                     /\ cmds'[i].rc = cmds[i].rc + 1
                     /\ cmds'[i].delay = 5000
                ELSE cmds'[i].pc \in {"done", "refetch"}]_vars

\* The third re-issue of a command has been sent.
C28_Witness ==
    /\ Len(cmds) = 1
    /\ cmds[1].pc = "mmwrite" /\ cmds[1].rc = 2
    /\ expectedThermalState = cmds[1].target
    /\ server.mode # cmds[1].target

\* C29 as stated: the step that handles the mismatching response to the
\* third re-issue clears the expected state, sets the snapshot's thermal mode
\* to the mode of that response and publishes it.
C29_AcceptServerState ==
    [][\A i \in 1..Len(cmds) :
          (MismatchStep(i, "mmwrite_ans") /\ cmds[i].rc + 1 >= 3) =>
              /\ expectedThermalState' = "null"
              /\ deviceStatus'.mode = cmds[i].data.mode
              /\ published'.mode = cmds[i].data.mode]_vars

\* A step in which a response to a write of command i that reports the
\* target is handled.
MatchStep(i) ==
    /\ cmds[i].pc \in {"write_ans", "mmwrite_ans"} /\ cmds[i].ok
    /\ cmds[i].data.mode = cmds[i].target
    /\ cmds'[i].pc # cmds[i].pc

\* C30 as stated: the step that handles a response reporting the target
\* clears the expected state, makes the snapshot's control fields those of
\* the response and publishes the snapshot.
C30_AdoptServerControl ==
    [][\A i \in 1..Len(cmds) :
          MatchStep(i) =>
              /\ expectedThermalState' = "null"
              /\ deviceStatus'.mode = cmds[i].data.mode
              /\ deviceStatus'.temp = cmds[i].data.temp
              /\ published' = deviceStatus']_vars

\* C30 as amended: the step clears the expected state; when a snapshot
\* exists, its control fields become those of the response, its status
\* fields stay, and it is published; when none exists, none is made and
\* nothing is published.
C30_AdoptWhenSnapshot ==
    [][\A i \in 1..Len(cmds) :
          MatchStep(i) =>
              /\ expectedThermalState' = "null"
              /\ cmds'[i].pc = "done"
              /\ IF deviceStatus.mode # "null"
                 THEN /\ deviceStatus'.mode = cmds[i].data.mode
                      /\ deviceStatus'.temp = cmds[i].data.temp
                      /\ deviceStatus'.wl = deviceStatus.wl
                      /\ published' = deviceStatus'
                 ELSE /\ deviceStatus' = deviceStatus
                      /\ published' = published]_vars

\* A command has been confirmed after the set temperature was changed at
\* the server: the snapshot has the temperature of the response and the
\* water level it had before.
C30_Witness ==
    /\ Len(cmds) = 1 /\ cmds[1].out = "confirmed"
    /\ deviceStatus.mode = cmds[1].target
    /\ deviceStatus.temp = 75 /\ deviceStatus.wl = 100
    /\ published = deviceStatus
    /\ expectedThermalState = "null"
    /\ lastPoll = NoPoll

\* The error that answered the re-issued write of command i is handled.
ReissueErrorStep(i) ==
    /\ cmds[i].pc = "mmwrite_ans" /\ ~cmds[i].ok
    /\ cmds'[i].pc # "mmwrite_ans"

\* C39: when a write re-issued by handleStateMismatch fails, the step that
\* handles the error sends the rollback's status request at once, without a
\* wait and without changing the snapshot, the expected state or what is
\* published; and a command that has sent that request sends no write again.
C39_ReissueNotRetried ==
    /\ [][\A i \in 1..Len(cmds) :
            ReissueErrorStep(i) =>
              /\ cmds'[i].pc = "refetch"
              /\ cmds'[i].delay = 0
              /\ cmds'[i].att = cmds[i].att /\ cmds'[i].rc = cmds[i].rc
              /\ UNCHANGED <<deviceStatus, expectedThermalState, published,
                             timeout, server>>]_vars
    /\ [][\A i \in 1..Len(cmds) :
            cmds[i].pc = "refetch" => cmds'[i].pc \in {"refetch", "done"}]_vars

\* The second re-issue of a write that had been answered at its first
\* attempt has failed, and the rollback's status request is under way.
C39_Witness ==
    /\ Len(cmds) = 1
    /\ cmds[1].pc = "refetch"
    /\ cmds[1].att = 1 /\ cmds[1].rc = 1
    /\ expectedThermalState = cmds[1].target
    /\ deviceStatus.mode = cmds[1].target
    /\ server.mode # cmds[1].target

----------------------------------------------------------------------------
(* Claims about two commands under way at once *)

\* The response to the first command's write is handled while the second
\* command, issued in between, has not had its response handled.
EarlierResponseStep ==
    /\ Len(cmds) = 2
    /\ cmds[1].pc = "write_ans" /\ cmds[1].ok
    /\ cmds'[1].pc # "write_ans"
    /\ cmds[2].pc \in {"write", "write_ans"}
    /\ cmds'[2] = cmds[2]

\* C36 as stated: the earlier command's response leaves the later command's
\* expected state set and the later command's optimistic mode in the
\* snapshot, whether the server has answered the later command already or
\* not; and when both commands have been confirmed the snapshot's mode is
\* the target of the later one.
C36_LaterCommandKept ==
    /\ [][EarlierResponseStep /\ expectedThermalState = cmds[2].target =>
            /\ expectedThermalState' = cmds[2].target
            /\ deviceStatus.mode # "null" =>
                   deviceStatus'.mode = cmds[2].target]_vars
    /\ [](/\ Len(cmds) = 2
          /\ cmds[1].out = "confirmed" /\ cmds[2].out = "confirmed"
          /\ deviceStatus.mode # "null"
          => deviceStatus.mode = cmds[2].target)

----------------------------------------------------------------------------
(* Claims about polling *)

\* A step in which a poll chain ends with a status received.
PollOkStep == Len(polls') < Len(polls) /\ lastPoll'.res = "ok"

\* A step in which a poll chain ends with the error of its last attempt.
PollFailedStep == Len(polls') < Len(polls) /\ lastPoll'.res = "failed"

\* C11: a poll result that reports another mode than a live expected state
\* leaves the expected state set; the snapshot takes the expected mode and
\* every other field from the poll, and that snapshot is what is published.
C11_HoldOptimistic ==
    [][PollOkStep /\ expectedThermalState # "null"
                  /\ server.mode # expectedThermalState =>
          /\ expectedThermalState' = expectedThermalState
          /\ deviceStatus' = [server EXCEPT !.mode = expectedThermalState]
          /\ published' = deviceStatus']_vars

C11_Witness ==
    /\ lastPoll.res = "ok" /\ lastPoll.held
    /\ polls = << >>
    /\ Len(cmds) = 1 /\ cmds[1].pc = "write"
    /\ expectedThermalState = cmds[1].target
    /\ server.mode # expectedThermalState
    /\ deviceStatus = [server EXCEPT !.mode = expectedThermalState]
    /\ deviceStatus.wl = 50
    /\ published = deviceStatus

\* C12 as stated: at no time are two poll chains (status requests sent by a
\* timer, with their retry waits) in progress.
C12_NoOverlap == Len(polls) <= 1

\* The poll timers that are pending.
PendingTimers == (IF timeout # 0 THEN 1 ELSE 0) + orphans

\* C13: in every reachable state at most one poll timer is pending: no
\* timer armed earlier is left pending when a timer is armed.
C13_OneTimer == PendingTimers <= 1

\* A command has re-armed the timer that the constructor had armed and that
\* had not fired.
C13_Witness ==
    /\ Len(cmds) = 1 /\ cmds[1].pc = "write"
    /\ deviceStatus.mode = cmds[1].target
    /\ polls = << >> /\ lastPoll.res = "none"
    /\ timeout = getPollingIntervalBasedOnState(deviceStatus)
    /\ timeout = standbyPollingIntervalMs
    /\ PendingTimers = 1

\* C14: in every state a poll timer is pending or a poll is in progress,
\* and a poll timer fires again and again.
C14_PollingNeverStops ==
    /\ [](PendingTimers >= 1 \/ polls # << >>)
    /\ []<><<TimerFires>>_vars

\* A poll chain has ended with the error of its fourth attempt and the
\* next poll is scheduled.
C14_Witness ==
    /\ lastPoll.res = "failed"
    /\ polls = << >>
    /\ timeout = getPollingIntervalBasedOnState(deviceStatus)
    /\ PendingTimers = 1

\* A step in which the snapshot's mode changes from one mode to the other.
ModeChangeStep ==
    /\ deviceStatus.mode \in Modes
    /\ deviceStatus'.mode \in Modes
    /\ deviceStatus'.mode # deviceStatus.mode

WriteResponseStep(i) ==
    /\ cmds[i].pc = "write_ans" /\ cmds[i].ok
    /\ cmds'[i].pc # "write_ans"

\* C38: a poll result whose mode is the expected one clears the expected
\* state, and the snapshot it leaves and publishes is the status polled;
\* when the response to the command's write is handled after that, with the
\* expected state cleared, the command ends there, without a re-issue, and
\* the snapshot's control fields are those of the response, whatever its
\* mode, and are published.
C38_PollConfirmsFirst ==
    /\ [][/\ PollOkStep
          /\ expectedThermalState # "null"
          /\ server.mode = expectedThermalState
          => /\ expectedThermalState' = "null"
             /\ deviceStatus' = server
             /\ published' = server]_vars
    /\ [][\A i \in 1..Len(cmds) :
            /\ WriteResponseStep(i)
            /\ expectedThermalState = "null"
            /\ deviceStatus.mode # "null"
            => /\ cmds'[i].pc = "done" /\ cmds'[i].out = "confirmed"
               /\ expectedThermalState' = "null"
               /\ deviceStatus' = [mode |-> cmds[i].data.mode,
                                   temp |-> cmds[i].data.temp,
                                   wl |-> deviceStatus.wl]
               /\ published' = deviceStatus']_vars

\* A poll found the device active as the command expected; the device was
\* then switched to standby by other means and ignored the write: the
\* response's standby is in the snapshot, with the water level of the poll,
\* and the command has ended.
C38_Witness ==
    /\ Len(cmds) = 1
    /\ cmds[1].target = "active" /\ cmds[1].out = "confirmed"
    /\ lastPoll.res = "ok" /\ ~lastPoll.held
    /\ expectedThermalState = "null"
    /\ deviceStatus.mode = "standby" /\ deviceStatus.wl = 100
    /\ server.mode = "standby" /\ server.wl = 50
    /\ published = deviceStatus

\* A step in which scheduleNextCheck arms a poll timer: a poll chain ends,
\* a command is issued while a snapshot exists, a rollback request is
\* answered with a status, or the handle holds a pending timer with another
\* delay than before.
ArmStep ==
    \/ PollOkStep \/ PollFailedStep
    \/ Len(cmds') > Len(cmds) /\ deviceStatus.mode # "null"
    \/ \E i \in 1..Len(cmds) : RefetchOkStep(i)
    \/ timeout' # 0 /\ timeout' # timeout

\* C32: getPollingIntervalBasedOnState gives 45 s when there is no snapshot
\* or the snapshot's mode is active and 15 minutes when it is standby; a
\* timer that is pending while no snapshot exists has the active interval;
\* and every step that arms a timer arms it with the interval of the
\* snapshot the step leaves.
C32_IntervalBySnapshot ==
    /\ [](getPollingIntervalBasedOnState(deviceStatus) =
             IF deviceStatus.mode = "standby" THEN 900000 ELSE 45000)
    /\ [](deviceStatus.mode = "null" /\ timeout # 0 => timeout = 45000)
    /\ [][ArmStep =>
            timeout' = IF deviceStatus'.mode = "standby"
                       THEN 900000 ELSE 45000]_vars

\* A poll that was sent before any snapshot existed has found the device
\* in standby and has armed the next timer with the standby interval.
C32_Witness ==
    /\ lastPoll.res = "ok" /\ lastPoll.prev = "null"
    /\ polls = << >> /\ cmds = << >>
    /\ deviceStatus.mode = "standby"
    /\ timeout = 900000

----------------------------------------------------------------------------
(* Claims about the interaction-based variant *)

\* A step in which scheduleNextCheck runs.
IaScheduleStep ==
    \/ isStartup /\ ~isStartup'
    \/ iaPoll = "sent" /\ iaPoll' = "idle"

\* C15: scheduleNextCheck arms the timer with 15 s when the last
\* interaction is less than 60 s ago and with the slow interval otherwise;
\* the first call arms it with the slow interval.
C15_IntervalByRecency ==
    [][IaScheduleStep =>
          /\ iaArmedAt' = iaNow
          /\ iaTimeout' = IF isStartup THEN slowPollingIntervalMs
                          ELSE IF iaNow - lastInteractionTime < 60000
                          THEN 15000 ELSE slowPollingIntervalMs]_vars

\* A poll has ended less than 60 s after an interaction.
C15_Witness ==
    /\ lastInteractionTime >= 0
    /\ iaPoll = "idle" /\ lastFire >= 0
    /\ iaArmedAt = iaNow
    /\ iaNow - lastInteractionTime < 60000
    /\ iaTimeout = 15000

\* C17 as stated: once a confirmed command has set lastInteractionTime, a
\* poll timer fires within 15 s of it.
C17_FastAfterInteraction ==
    lastInteractionTime >= 0 /\ lastFire < lastInteractionTime =>
        iaNow <= lastInteractionTime + 15000

----------------------------------------------------------------------------
(* Claims about retryApiCall *)

Settled == retryState \in {"resolved", "rejected"}

\* C18: retryApiCall settles; it invokes the operation at most
\* maxRetries + 1 times; it resolves with the response of the invocation
\* that succeeded, which is the last one; and it rejects only after
\* maxRetries + 1 errors, whatever their kind.
C18_RetrySettles ==
    /\ [](invocations <= maxRetries + 1)
    /\ [](retryState = "resolved" =>
             /\ settledWith = [status |-> 200, n |-> invocations]
             /\ Len(raised) = invocations - 1)
    /\ [](retryState = "rejected" => Len(raised) = maxRetries + 1)
    /\ [][Settled => invocations' = invocations]_vars
    /\ <>Settled

\* The fourth invocation has succeeded after a rate limit, a server error
\* and an authentication rejection.
C18_Witness ==
    /\ maxRetries = 3
    /\ retryState = "resolved"
    /\ invocations = 4
    /\ {raised[k].status : k \in 1..Len(raised)} = {429, 500, 403}

\* C19: when every attempt has failed the promise is rejected with the
\* error of the last invocation, and that invocation was the last.
C19_RejectsWithLastError ==
    retryState = "rejected" =>
        /\ settledWith = raised[Len(raised)]
        /\ settledWith.n = invocations
        /\ Len(raised) = invocations

C19_Witness ==
    /\ maxRetries = 3
    /\ retryState = "rejected"
    /\ raised[1].status = 429
    /\ settledWith = [status |-> 403, n |-> 4]

\* C31: the wait that follows failed attempt k is 15000 * 2^(k-1) ms, that
\* is 15 s, 30 s and 60 s for attempts 1, 2 and 3; each wait is twice the
\* one before it; a wait is started by every failed attempt that is followed
\* by a retry and by no other, so none follows the last failed attempt.
C31_ExponentialWaits ==
    /\ \A k \in 1..Len(delays) :
          /\ k = 1 => delays[k] = 15000
          /\ k = 2 => delays[k] = 30000
          /\ k = 3 => delays[k] = 60000
          /\ k > 1 => delays[k] = 2 * delays[k - 1]
    /\ Len(delays) <= maxRetries
    /\ retryState = "waiting" => Len(delays) = Len(raised)
    /\ retryState = "calling" => Len(delays) = Len(raised)
    /\ retryState = "rejected" => Len(delays) = Len(raised) - 1

\* All four attempts have failed: three waits, none after the fourth.
C31_Witness ==
    /\ maxRetries = MAX_RETRIES
    /\ retryState = "rejected"
    /\ Len(raised) = 4
    /\ delays = <<15000, 30000, 60000>>

----------------------------------------------------------------------------
(* Claims about the target temperature *)

\* The whole number of degrees F nearest to c tenths of a degree C, halves
\* rounded up.
RoundedF(c) ==
    CHOOSE n \in 0..200 : /\ 50 * (2 * n - 1) <= 2 * (9 * c + 1600)
                           /\ 2 * (9 * c + 1600) < 50 * (2 * n + 1)

\* C20: a target whose rounded Fahrenheit value is above 115 is written as
\* 999 and one below 55 as -1; a snapshot with set_temperature_f >= 999 is
\* displayed as 46.7 C and one with -1 as 12.2 C; and setting the value
\* displayed for a sentinel writes that sentinel again.
C20_SentinelRoundTrip ==
    /\ [](tempSets > 0 =>
             /\ RoundedF(target) > 115 => apiTemp = 999
             /\ RoundedF(target) < 55 => apiTemp = 0 - 1
             /\ RoundedF(target) \in 55..115 => apiTemp = RoundedF(target))
    /\ [](snapshotTemp.f >= 999 => displayed = 467)
    /\ [](snapshotTemp.f <= 0 - 1 => displayed = 122)
    /\ [][/\ tempSets' = tempSets + 1
          /\ snapshotTemp.f \in {999, 0 - 1}
          /\ target' = displayed
          => apiTemp' = snapshotTemp.f]_vars

\* The device has reported the sentinel written for the second time, after
\* the value displayed for it had been set again.
C20_Witness ==
    /\ tempSets = 2 /\ setByDisplay
    /\ tempPhase = "idle"
    /\ target = 122
    /\ apiTemp = 0 - 1
    /\ snapshotTemp.f = 0 - 1
    /\ snapshotTemp.c < 0
    /\ displayed = 122

\* The values of the allowed range: 12 to 46.5 in steps of 0.5, and 46.7.
AllowedTargets == {120 + 5 * k : k \in 0..69} \cup {467}

\* C34: for every target of the allowed range the value written is the
\* rounded Fahrenheit value when that is in 55..115, 999 when it is above
\* 115 and -1 when it is below 55 (12 C is written as -1, 12.5 C as 55,
\* 46 C as 115, 46.5 C as 999); nothing else is ever written.
C34_ValueSent ==
    /\ [][tempSets' = tempSets + 1 /\ target' \in AllowedTargets =>
            apiTemp' = IF RoundedF(target') > 115 THEN 999
                       ELSE IF RoundedF(target') < 55 THEN 0 - 1
                       ELSE RoundedF(target')]_vars
    /\ [](tempSets > 0 =>
             /\ apiTemp \in {0 - 1, 999} \cup 55..115
             /\ target = 120 => apiTemp = 0 - 1
             /\ target = 125 => apiTemp = 55
             /\ target = 460 => apiTemp = 115
             /\ target = 465 => apiTemp = 999)

\* 12.5 C, which is 54.5 F, has been written as 55, and then 46 C as 115.
C34_Witness ==
    /\ tempSets = 2 /\ tempPhase = "sent"
    /\ target = 460 /\ apiTemp = 115
    /\ deviceTemp.f = 55

\* C37: while there is no snapshot, a call of the temperature's onSet sends
\* no write and changes nothing in the accessory, whereas a call of the
\* mode's onSet sets the expected state to its target and sends its write,
\* leaving the snapshot unset and nothing published.
C37_NoSnapshotCommands ==
    /\ [][/\ deviceStatus.mode = "null"
          /\ tempSets' + tempIgnored' = tempSets + tempIgnored + 1
          => /\ tempPhase' = "idle" /\ tempSets' = tempSets
             /\ UNCHANGED <<apiTemp, snapshotTemp, deviceTemp, displayed>>
             /\ UNCHANGED avars]_vars
    /\ [][deviceStatus.mode = "null" /\ Len(cmds') = Len(cmds) + 1 =>
            /\ expectedThermalState' = cmds'[Len(cmds')].target
            /\ cmds'[Len(cmds')].pc = "write"
            /\ deviceStatus' = deviceStatus
            /\ published' = published
            /\ UNCHANGED tvars]_vars

\* Without a snapshot, a temperature has been set, which left everything as
\* it was, and then the mode, whose write the server has answered.
C37_Witness ==
    /\ deviceStatus.mode = "null"
    /\ tempIgnored = 1 /\ tempSets = 0 /\ tempPhase = "idle"
    /\ Len(cmds) = 1 /\ cmds[1].pc = "write_ans" /\ cmds[1].ok
    /\ expectedThermalState = cmds[1].target
    /\ server.mode = cmds[1].target

----------------------------------------------------------------------------
(* Claims about the promise chains *)

\* C22: no chain of the engine (the constructor's status request, a poll,
\* the cache's fetch, a mode command with its re-issues and its rollback, a
\* temperature command) ends with a rejected promise, whichever of its
\* requests fail and whatever its handlers find.
C22_NoFailureEscapes == ended # "rejected"

\* A mode command without a snapshot: three failed writes, a fourth that is
\* answered with the other mode, three re-issues answered likewise, the
\* TypeError of handleStateMismatch, and a rollback whose request fails.
C22_Witness ==
    /\ chainRoot = "mode"
    /\ ended = "fulfilled"
    /\ ~hasSnapshot
    /\ chAttempt = MAX_RETRIES + 1
    /\ chRetryCount = MAX_STATE_MISMATCH_RETRIES

----------------------------------------------------------------------------
(* Claims about the platform *)

\* C23: when api_keys is missing or is not an array, the platform has logged
\* 'No API keys configured - plugin will not start', and it never starts
\* the discovery: no request is sent and nothing is registered, before and
\* after didFinishLaunching.
C23_NoKeysNoDiscovery ==
    config.api_keys.kind # "array" =>
        /\ LogEntry("No API keys configured - plugin will not start", << >>)
               \in platLog
        /\ discovery = "none"
        /\ \A i \in DOMAIN keyPromise : keyPromise[i] = "none"
        /\ registered = {}

C23_Witness ==
    /\ config.api_keys.kind = "object"
    /\ config.sleepme_api_url = "url"
    /\ launched

\* The last four characters of a key, all of them when it has fewer.
LastFour(chars) ==
    LET n == IF Len(chars) < 4 THEN Len(chars) ELSE 4
    IN  [j \in 1..n |-> chars[Len(chars) - n + j]]

\* C24: the step that handles a 403 for a key logs that the token ending in
\* the key's last four characters is invalid, registers nothing, fulfils
\* that key's promise and leaves those of the other keys alone; the promise
\* of discoverDevices is never rejected; and every key answered with its
\* devices has its device registered unless it was restored from the cache.
C24_InvalidKeyContained ==
    /\ [][\A i \in DOMAIN keyAnswer :
            keyAnswer[i] = 0 /\ keyAnswer'[i] = 403 =>
              /\ LogEntry("the token ending in ${token} is invalid.",
                          LastFour(config.api_keys.items[i].chars))
                     \in platLog'
              /\ registered' = registered
              /\ keyPromise'[i] = "fulfilled"
              /\ \A j \in DOMAIN keyAnswer \ {i} :
                     keyPromise'[j] = keyPromise[j]]_vars
    /\ [](discovery # "rejected")
    /\ [](\A j \in DOMAIN keyAnswer :
             keyAnswer[j] = 200 /\ listed[j] \notin cached =>
                 listed[j] \in registered)

\* Two keys, the first rejected with 403 and the second answered: the
\* second key's device is registered and the discovery has resolved.
C24_Witness ==
    /\ Len(keyAnswer) = 2
    /\ config.api_keys.items[1] = LongKey
    /\ keyAnswer[1] = 403 /\ keyAnswer[2] = 200
    /\ listed = <<1, 2>>
    /\ registered = {2}
    /\ discovery = "fulfilled"

\* C35 as stated: no device is given to registerPlatformAccessories twice
\* in a discovery run, and none that was restored from the cache.
C35_RegisteredOnce ==
    /\ \A m, n \in 1..Len(registerCalls) :
           registerCalls[m] = registerCalls[n] => m = n
    /\ \A n \in 1..Len(registerCalls) : registerCalls[n] \notin cached

----------------------------------------------------------------------------
(* Claims about the poll intervals *)

\* What the constructors compute, in seconds: the floor for a setting below
\* it, the setting itself otherwise, the default for a setting that is unset.
IntervalFloors ==
    intervalsSec.active # 0 =>
        /\ intervalsSec.active =
              IF ~pollConfig.active.set THEN 45
              ELSE IF pollConfig.active.v < 5 THEN 5
              ELSE pollConfig.active.v
        /\ intervalsSec.standby =
              IF ~pollConfig.standby.set THEN 900
              ELSE IF pollConfig.standby.v < 1 THEN 60
              ELSE pollConfig.standby.v * 60
        /\ intervalsSec.slow =
              IF ~pollConfig.slow.set THEN 900
              ELSE IF pollConfig.slow.v < 1 THEN 60
              ELSE pollConfig.slow.v * 60

\* C33 as stated: the intervals are the floor, the setting or the default,
\* and so every poll timer that is armed runs with a delay of at least its
\* floor: 5 s for the active interval (and the fast one), 1 minute for the
\* standby and the slow interval.
C33_DelayNeverBelowFloor ==
    /\ IntervalFloors
    /\ armedWith \in {"active", "fast"} => armedDelay >= 5000
    /\ armedWith \in {"standby", "slow"} => armedDelay >= 60000

====
